---- MODULE Spec2Model ----
(***************************************************************************)
(* A model of the enrichment-and-upsert pipeline of anki_spanish:          *)
(* build_cards.py, scripts/sentences_build.py, ipa_enricher.py,            *)
(* scripts/enrich_pos_gender.py and translate_pick.py, run against one     *)
(* record store (the CSV / JSON input), the media directories and the      *)
(* remote note store reached through AnkiConnect.                          *)
(*                                                                         *)
(* Text is a sequence of atoms.  An atom is one character, or one piece of *)
(* literal markup that the programs only ever copy as a whole ("[sound:",  *)
(* ".mp3", "{{c1::").  strip, lower, split, endswith, slicing and          *)
(* substring search work on these sequences as they do on Python strings.  *)
(***************************************************************************)
EXTENDS Integers, Sequences, FiniteSets, TLC

\* ------------------------------------------------------------------------
\* Bounds of the model
\* ------------------------------------------------------------------------
NumRows == 2
MaxWordLen == 3
MaxDocLen == 3
MaxRuns == 2

\* ------------------------------------------------------------------------
\* Text helpers (Python str methods on sequences of atoms)
\* ------------------------------------------------------------------------
E == << >>

IsSpace(c) == c \in {" ", "\t", "\n"}

RECURSIVE LStrip(_)
LStrip(s) == IF s # E /\ IsSpace(Head(s)) THEN LStrip(Tail(s)) ELSE s

RECURSIVE RStrip(_)
RStrip(s) == IF s # E /\ IsSpace(s[Len(s)]) THEN RStrip(SubSeq(s, 1, Len(s) - 1)) ELSE s

Strip(s) == RStrip(LStrip(s))

UpperAtoms == <<"M", "F", "N", "O", "S">>
LowerAtoms == <<"m", "f", "n", "o", "s">>

LowerAtom(c) ==
    IF \E k \in 1..Len(UpperAtoms) : UpperAtoms[k] = c
    THEN LowerAtoms[CHOOSE k \in 1..Len(UpperAtoms) : UpperAtoms[k] = c]
    ELSE c

Lower(s) == [k \in 1..Len(s) |-> LowerAtom(s[k])]

\* unicodedata.normalize("NFD", s) followed by dropping category Mn
AccentedAtoms == <<"á", "é", "í", "ó", "ú", "ñ">>
PlainAtoms == <<"a", "e", "i", "o", "u", "n">>

StripAccentAtom(c) ==
    IF \E k \in 1..Len(AccentedAtoms) : AccentedAtoms[k] = c
    THEN PlainAtoms[CHOOSE k \in 1..Len(AccentedAtoms) : AccentedAtoms[k] = c]
    ELSE c

StripAccents(s) == [k \in 1..Len(s) |-> StripAccentAtom(s[k])]

AlnumAtoms ==
    {"a", "b", "c", "d", "e", "f", "g", "h", "i", "j", "k", "l", "m", "n", "o", "p",
     "q", "r", "s", "t", "u", "v", "w", "x", "y", "z", "ñ",
     "0", "1", "2", "3", "4", "5", "6", "7", "8", "9"}

EndsWith(s, suf) ==
    Len(s) >= Len(suf) /\ SubSeq(s, Len(s) - Len(suf) + 1, Len(s)) = suf

\* Python's `needle in hay`
Contains(hay, needle) ==
    \E k \in 0..(Len(hay) - Len(needle)) : SubSeq(hay, k + 1, k + Len(needle)) = needle

\* s.split(): the maximal runs of non-whitespace atoms
RECURSIVE SplitAcc(_, _, _)
SplitAcc(s, cur, acc) ==
    IF s = E THEN (IF cur = E THEN acc ELSE Append(acc, cur))
    ELSE IF IsSpace(Head(s))
         THEN SplitAcc(Tail(s), E, IF cur = E THEN acc ELSE Append(acc, cur))
         ELSE SplitAcc(Tail(s), Append(cur, Head(s)), acc)

Split(s) == SplitAcc(s, E, << >>)

RECURSIVE Join(_, _)
Join(sep, parts) ==
    IF parts = << >> THEN E
    ELSE IF Len(parts) = 1 THEN parts[1]
    ELSE parts[1] \o sep \o Join(sep, Tail(parts))

\* ------------------------------------------------------------------------
\* build_cards.py: pure helpers
\* ------------------------------------------------------------------------
slugify(s) ==
    LET s1 == StripAccents(Lower(Strip(s)))
        s2 == [k \in 1..Len(s1) |->
                 IF s1[k] \in AlnumAtoms \/ s1[k] \in {"_", "-", " "} THEN s1[k] ELSE "_"]
    IN Join(<<"_">>, Split(s2))

FEM_SUFFIXES ==
    {<<"c","i","ó","n">>, <<"s","i","ó","n">>, <<"d","a","d">>, <<"t","a","d">>,
     <<"t","u","d">>, <<"u","m","b","r","e">>, <<"i","e">>}
MASC_SUFFIXES ==
    {<<"a","j","e">>, <<"o","r">>, <<"á","n">>, <<"a","m","b","r","e">>}
INF_SUFFIXES == {<<"a","r">>, <<"e","r">>, <<"i","r">>}

W_mano == <<"m","a","n","o">>
W_dia == <<"d","í","a">>
W_mapa == <<"m","a","p","a">>
W_agua == <<"a","g","u","a">>
W_ala == <<"a","l","a">>
W_oso == <<"o","s","o">>
W_osos == <<"o","s","o","s">>
W_sol == <<"s","o","l">>
W_ir == <<"i","r">>
W_mar == <<"m","a","r">>

S_noun == <<"n","o","u","n">>
S_verb == <<"v","e","r","b">>
S_adj == <<"a","d","j">>
S_m == <<"m">>
S_f == <<"f">>
S_el == <<"e","l">>
S_la == <<"l","a">>

\* GENDER_EX (EXCEPTIONS in translate_pick): mano is f, every other key is m
GENDER_EX_KEYS ==
    {W_mano, W_dia, W_mapa, <<"p","l","a","n","e","t","a">>, <<"i","d","i","o","m","a">>,
     <<"t","e","m","a">>, <<"p","o","e","m","a">>, <<"p","r","o","g","r","a","m","a">>,
     <<"s","i","s","t","e","m","a">>, <<"p","r","o","b","l","e","m","a">>}
GENDER_EX(w) == IF w = W_mano THEN S_f ELSE S_m

FEM_EL_WHITELIST == {W_agua, W_ala}

\* the suffix rules consulted before the exception table
detect_gender_suffix_first(word, pos) ==
    LET toks == Split(Strip(word))
        head == IF toks = << >> THEN E ELSE Lower(toks[1])
    IN IF head = E \/ \E s \in INF_SUFFIXES : EndsWith(head, s) THEN E
       ELSE IF \E s \in FEM_SUFFIXES : EndsWith(head, s) THEN S_f
       ELSE IF \E s \in MASC_SUFFIXES : EndsWith(head, s) THEN S_m
       ELSE IF EndsWith(head, <<"a">>) THEN S_f
       ELSE IF EndsWith(head, <<"o">>) THEN S_m
       ELSE IF head \in GENDER_EX_KEYS THEN GENDER_EX(head)
       ELSE E

detect_gender(word, pos) ==
    LET toks == Split(Strip(word))
        head == IF toks = << >> THEN E ELSE Lower(toks[1])
    IN IF head = E \/ \E s \in INF_SUFFIXES : EndsWith(head, s) THEN E
       ELSE IF head \in GENDER_EX_KEYS THEN GENDER_EX(head)
       ELSE IF \E s \in FEM_SUFFIXES : EndsWith(head, s) THEN S_f
       ELSE IF \E s \in MASC_SUFFIXES : EndsWith(head, s) THEN S_m
       ELSE IF EndsWith(head, <<"a">>) THEN S_f
       ELSE IF EndsWith(head, <<"o">>) THEN S_m
       ELSE E

compute_article(spanish, gender, pos) ==
    IF pos # S_noun \/ gender \notin {S_m, S_f} THEN E
    ELSE IF gender = S_m THEN S_el
    ELSE IF StripAccents(Lower(spanish)) \in FEM_EL_WHITELIST THEN S_el
    ELSE S_la

\* ------------------------------------------------------------------------
\* State
\* ------------------------------------------------------------------------
VARIABLES
    prog,        \* the program every run of this behaviour executes
    flags,       \* its command-line configuration (module globals / args)
    csv,         \* the record store file: a sequence of rows
    notes,       \* the remote store: a set of notes [id, deck, fields, tags]
    modelFields, \* the remote model's field names, in declaration order
    images,      \* file names present in IMAGES_DIR
    audio,       \* file names present in AUDIO_DIR
    pillow,      \* whether the collage capability (PIL) imported
    runs,        \* number of runs this behaviour contains
    run,         \* number of runs started
    pc,          \* position of the running program
    rows,        \* the rows held in memory by the running program
    i,           \* index of the row the loop is at
    processed,   \* main's `processed` (sentences_build: count_add + count_upd;
                 \* enrich_pos_gender: `updated`)
    cnt,         \* main's counters
    cur,         \* main's per-record locals
    crash,       \* why the run ended abnormally ("" when it did not)
    log,         \* history: row index -> remote requests sent for that row
    outcome,     \* history: row index -> how the row left the loop
    worked,      \* history: rows that got past the needs-anything filter
    updLog,      \* history: updateNoteFields / addTags requests sent
    pushed,      \* history: row index -> field set sent for the row
    prevOut,     \* history: `outcome` of the previous run
    prevPushed,  \* history: `pushed` of the previous run
    csvPresent,  \* whether the record store file (CSV, sentences JSON) exists
    dirs         \* the media and prompt directories that exist

vars == <<prog, flags, csv, notes, modelFields, images, audio, pillow, runs, run, pc, rows, i,
          processed, cnt, cur, crash, log, outcome, worked, updLog, pushed, prevOut,
          prevPushed, csvPresent, dirs>>

envVars == <<prog, flags, modelFields, pillow, runs, csvPresent>>
histVars == <<log, outcome, worked, updLog, pushed, prevOut, prevPushed>>

\* ------------------------------------------------------------------------
\* The remote store (AnkiConnect), as the programs use it
\* ------------------------------------------------------------------------
DECK == "deck"          \* the deck named by --deck
OTHER_DECK == "other"   \* any other deck of the collection

NoFields == << >>

NoteById(id) == CHOOSE n \in notes : n.id = id

NewId == IF notes = {} THEN 1
         ELSE 1 + (CHOOSE m \in {n.id : n \in notes} : \A k \in {n.id : n \in notes} : k <= m)

\* findNotes 'deck:"D" note:"M" "fragment"': the notes of the deck holding the
\* fragment in some field
FindNotesQ(frag) ==
    {n.id : n \in {m \in notes : m.deck = DECK
                                  /\ \E f \in DOMAIN m.fields : Contains(m.fields[f], frag)}}

\* addNote's answer with options.allowDuplicate = dupOk.  The duplicate check is
\* AnkiConnect's: the first field of the model, over the whole collection.
AddNoteAnswer(fields, dupOk) ==
    LET first == modelFields[1]
    IN IF ~(DOMAIN fields \subseteq {modelFields[k] : k \in 1..Len(modelFields)}) THEN "schema"
       ELSE IF first \notin DOMAIN fields \/ Strip(fields[first]) = E THEN "empty"
       ELSE IF ~dupOk /\ \E n \in notes : first \in DOMAIN n.fields /\ n.fields[first] = fields[first]
            THEN "duplicate"
       ELSE "ok"

FullFields(fields) ==
    [f \in {modelFields[k] : k \in 1..Len(modelFields)} |->
        IF f \in DOMAIN fields THEN fields[f] ELSE E]

NotesAfterAdd(fields, tags) ==
    notes \cup {[id |-> NewId, deck |-> DECK, fields |-> FullFields(fields), tags |-> tags]}

UpdateAnswer(id, fields) ==
    IF \A n \in notes : n.id # id THEN "missing"
    ELSE IF ~(DOMAIN fields \subseteq DOMAIN NoteById(id).fields) THEN "schema"
    ELSE "ok"

NotesAfterUpdate(id, fields) ==
    {IF n.id = id
     THEN [n EXCEPT !.fields = [f \in DOMAIN n.fields |->
                                   IF f \in DOMAIN fields THEN fields[f] ELSE n.fields[f]]]
     ELSE n : n \in notes}

NotesAfterTags(id, tags) ==
    {IF n.id = id THEN [n EXCEPT !.tags = n.tags \cup tags] ELSE n : n \in notes}

\* ------------------------------------------------------------------------
\* build_cards.py: media
\* ------------------------------------------------------------------------
EXPECTED_FIELDS == <<"Word", "Image", "Audio", "Notes", "IPA", "Gender", "POS", "Article">>
FieldNamesWithoutNotes == <<"english", "sense", "pos", "spanish", "gender", "ipa">>

FIELDNAMES == <<"english", "sense", "pos", "spanish", "gender", "ipa", "notes">>

\* The badge files GENDER_DIR holds; no program of the repository writes there.
GenderBadges == {<<"male", ".png">>}

find_gender_badge(gender) ==
    IF gender = E THEN E
    ELSE LET base == IF Lower(gender)[1] = "m" THEN "male" ELSE "female"
         IN IF <<base, ".png">> \in GenderBadges THEN <<base, ".png">> ELSE E

\* The candidate source names collect_image_sources probes, in its order
\* (slug.jpg, then slug-1.jpg, slug-2.jpg; other extensions and the folder
\* variant are absent from the modelled directory).
collect_image_sources(slug, imgs) ==
    SelectSeq(<<slug \o <<".jpg">>, slug \o <<"-1", ".jpg">>, slug \o <<"-2", ".jpg">>>>,
              LAMBDA p : p \in imgs)

\* create_collage: None without Pillow, else the composed file out_path
create_collage(sources, out_path) ==
    IF ~pillow \/ sources = << >> THEN E
    ELSE IF Len(sources) = 1 THEN sources[1]
    ELSE out_path

\* find_base_image composing anew whether or not the collage file exists
find_base_image_no_cache(spanish, imgs) ==
    LET slug == slugify(spanish)
        sources == collect_image_sources(slug, imgs)
        out == create_collage(sources, slug \o <<"_collage", ".jpg">>)
    IN IF sources = << >> THEN [img |-> E, images |-> imgs]
       ELSE IF Len(sources) = 1 THEN [img |-> sources[1], images |-> imgs]
       ELSE IF out # E THEN [img |-> out, images |-> imgs \cup {out}]
       ELSE [img |-> sources[1], images |-> imgs]

\* find_base_image: the resolved path (E for None) and the directory afterwards
find_base_image(spanish, imgs) ==
    LET slug == slugify(spanish)
        sources == collect_image_sources(slug, imgs)
        collage == slug \o <<"_collage", ".jpg">>
        out == create_collage(sources, collage)
    IN IF sources = << >> THEN [img |-> E, images |-> imgs]
       ELSE IF Len(sources) = 1 THEN [img |-> sources[1], images |-> imgs]
       ELSE IF collage \in imgs THEN [img |-> collage, images |-> imgs]
       ELSE IF out # E THEN [img |-> out, images |-> imgs \cup {out}]
       ELSE [img |-> sources[1], images |-> imgs]

compose_image_html(main_image_name, gender) ==
    LET badge == find_gender_badge(gender)
    IN IF badge = E THEN <<"<img src=">> \o main_image_name \o <<">">>
       ELSE <<"<div>", "<img src=">> \o main_image_name \o <<">", "<img src=">> \o badge
            \o <<" style=badge>", "</div>">>

\* ------------------------------------------------------------------------
\* build_cards.py: the IPA chain
\* ------------------------------------------------------------------------
Sources == {"wikt", "phon", "epit"}
IPA_WIKT == <<"/", "w", "/">>
IPA_PHON == <<"/", "p", "/">>
IPA_EPIT == <<"/", "e", "/">>

\* The sources that hold an answer for a word: every source for oso, the two
\* grapheme-to-phoneme backends for sol, the last one for ala, none for any
\* other word.
SourceAnswers(word) ==
    IF word = W_oso THEN Sources
    ELSE IF word = W_sol THEN {"phon", "epit"}
    ELSE IF Lower(word) = W_ala THEN {"epit"}
    ELSE {}

\* the value of the last enabled source that answers
IpaChainLastWins(fl, answering) ==
    IF ~fl.DISABLE_EPIT /\ "epit" \in answering THEN IPA_EPIT
    ELSE IF ~fl.DISABLE_PHON /\ "phon" \in answering THEN IPA_PHON
    ELSE IF ~fl.DISABLE_WIKT /\ "wikt" \in answering THEN IPA_WIKT
    ELSE E

\* the sources the chain invokes, in invocation order: each `if` of the chain
\* calls its source when it is enabled and `ip` is still empty
IpaCalls(fl, answering) ==
    LET c1 == ~fl.DISABLE_WIKT
        got1 == c1 /\ "wikt" \in answering
        c2 == ~got1 /\ ~fl.DISABLE_PHON
        got2 == got1 \/ (c2 /\ "phon" \in answering)
        c3 == ~got2 /\ ~fl.DISABLE_EPIT
    IN (IF c1 THEN <<"wikt">> ELSE << >>) \o (IF c2 THEN <<"phon">> ELSE << >>)
       \o (IF c3 THEN <<"epit">> ELSE << >>)

\* `answering` is the set of sources that return a value for this call
IpaChain(fl, answering) ==
    LET ip1 == IF ~fl.DISABLE_WIKT /\ "wikt" \in answering THEN IPA_WIKT ELSE E
        ip2 == IF ip1 = E /\ ~fl.DISABLE_PHON /\ "phon" \in answering THEN IPA_PHON ELSE ip1
        ip3 == IF ip2 = E /\ ~fl.DISABLE_EPIT /\ "epit" \in answering THEN IPA_EPIT ELSE ip2
    IN ip3

\* ------------------------------------------------------------------------
\* build_cards.py: main
\* ------------------------------------------------------------------------
ZeroCnt == [added |-> 0, updated |-> 0, skipped |-> 0, audio_failed |-> 0,
            image_missing |-> 0, enriched_ipa |-> 0, enriched_gender |-> 0]

NoCur == [spanish |-> E, pos |-> E, gender |-> E, ipa_text |-> E, article |-> E,
          img |-> E, mp3 |-> E, fields |-> NoFields, tags |-> {}, ids |-> {},
          existing |-> 0, matched |-> E, via |-> "", calls |-> << >>, answering |-> {}]

RowIdx == 1..NumRows
NoLog == [k \in RowIdx |-> {}]
NoOutcome == [k \in RowIdx |-> ""]
NoPushed == [k \in RowIdx |-> NoFields]

Stopped == {"idle", "done", "exited", "crashed", "aborted"}

\* `if LIMIT and processed >= LIMIT: break`
LimitReached(limit, done) == limit > 0 /\ done >= limit

\* the `needs` list of main, as a set
NeedsNoGender(img, mp3, pos, gender, ipa_text, auds) ==
    (IF img = E THEN {"image"} ELSE {})
    \cup (IF mp3 \notin auds THEN {"audio"} ELSE {})
    \cup (IF ipa_text = E THEN {"ipa"} ELSE {})

Needs(img, mp3, pos, gender, ipa_text, auds) ==
    (IF img = E THEN {"image"} ELSE {})
    \cup (IF mp3 \notin auds THEN {"audio"} ELSE {})
    \cup (IF pos = S_noun /\ gender = E THEN {"gender"} ELSE {})
    \cup (IF ipa_text = E THEN {"ipa"} ELSE {})

\* `if ONLY_MISSING and not needs and not RECALC_POS and not RECALC_IPA`
FilterSkips(fl, needs) ==
    fl.ONLY_MISSING /\ needs = {} /\ ~fl.RECALC_POS /\ ~fl.RECALC_IPA

\* `if not img_path:` after find_base_image / ensure_base_image
ImageResolvedAlways(img) == TRUE
ImageResolved(img) == img # E

\* `w == spanish` with w the stripped Word value of the candidate
ExactWordMatchSub(w, spanish) == Contains(w, spanish)
ExactWordMatchNever(w, spanish) == FALSE

ExactWordMatch(w, spanish) == Strip(w) = spanish

\* notes_bits joined by the bullet separator (the atom " * " stands for it)
ComposeNotes(english, sense, pos, gender, ipa_text) ==
    Join(<<" * ">>,
         (IF english # E THEN << <<"EN: ">> \o english >> ELSE << >>)
         \o (IF sense # E THEN << <<"Sense: ">> \o sense >> ELSE << >>)
         \o (IF pos # E THEN << <<"POS: ">> \o pos >> ELSE << >>)
         \o (IF gender # E THEN << <<"Gender: ">> \o gender >> ELSE << >>)
         \o (IF ipa_text # E THEN << <<"IPA: ">> \o ipa_text >> ELSE << >>))

ComposeFields(row, c) ==
    [f \in {EXPECTED_FIELDS[k] : k \in 1..Len(EXPECTED_FIELDS)} |->
        CASE f = "Word" -> c.spanish
          [] f = "Image" -> compose_image_html(c.img, c.gender)
          [] f = "Audio" -> <<"[sound:">> \o c.mp3 \o <<"]">>
          [] f = "Notes" -> ComposeNotes(Strip(row.english), Strip(row.sense), c.pos,
                                         c.gender, c.ipa_text)
          [] f = "IPA" -> c.ipa_text
          [] f = "Gender" -> c.gender
          [] f = "POS" -> c.pos
          [] f = "Article" -> c.article]

ComposeTags(c) ==
    {<<"625:auto">>}
    \cup (IF c.gender # E THEN {<<"gender:">> \o c.gender} ELSE {})
    \cup (IF c.pos # E THEN {<<"pos:">> \o c.pos} ELSE {})

\* leave the current record and go to the next iteration
NextRecord(how) ==
    /\ outcome' = [outcome EXCEPT ![i] = how]
    /\ i' = i + 1
    /\ cur' = NoCur
    /\ pc' = "loop"

BC == prog = "build_cards"

\* the directories ensure_dirs creates: IMAGES_DIR, AUDIO_DIR, GENDER_DIR
ensure_dirs == {"images", "audio", "gender"}

\* argument parsing, ensure_dirs, the CSV check, verify_model_fields and
\* read_rows.  `mfFail`: the modelFieldNames request fails
\* (verify_model_fields warns and returns).
BC_Start(mfFail) ==
    /\ BC /\ pc \in Stopped /\ run < runs
    /\ run' = run + 1
    /\ LET got == IF flags.DRY_RUN THEN << >> ELSE modelFields
           missing == {EXPECTED_FIELDS[k] : k \in 1..Len(EXPECTED_FIELDS)}
                      \ {got[k] : k \in 1..Len(got)}
           raised == (flags.DRY_RUN \/ ~mfFail) /\ missing # {}
       IN /\ pc' = IF ~csvPresent THEN "exited" ELSE IF raised THEN "crashed" ELSE "loop"
          /\ crash' = IF ~csvPresent THEN "nocsv" ELSE IF raised THEN "schema" ELSE ""
          /\ rows' = IF ~csvPresent \/ raised THEN << >> ELSE csv
    /\ dirs' = dirs \cup ensure_dirs
    /\ i' = 1 /\ processed' = 0 /\ cnt' = ZeroCnt /\ cur' = NoCur
    /\ log' = NoLog /\ outcome' = NoOutcome /\ worked' = {} /\ updLog' = {}
    /\ pushed' = NoPushed /\ prevOut' = outcome /\ prevPushed' = pushed
    /\ UNCHANGED <<envVars, csv, notes, images, audio>>

NeedsGenderGuessAlways(gender0, pos) == pos = S_noun

\* "if not gender and pos == 'noun'": the gender is guessed only when missing
NeedsGenderGuess(gender0, pos) == gender0 = E /\ pos = S_noun

\* top of the loop: the limit test, the empty-key skip, and gender enrichment
BC_LoopTop ==
    /\ BC /\ pc = "loop"
    /\ IF i > Len(rows) \/ LimitReached(flags.LIMIT, processed)
       THEN /\ pc' = "write"
            /\ UNCHANGED <<rows, i, cnt, cur, outcome>>
       ELSE LET r == rows[i]
                spanish == Strip(r.spanish)
                pos == Lower(Strip(r.pos))
                gender0 == Lower(Strip(r.gender))
                ipa_text == Strip(r.ipa)
                g == IF NeedsGenderGuess(gender0, pos) THEN detect_gender(spanish, pos) ELSE E
            IN IF spanish = E
               THEN /\ cnt' = [cnt EXCEPT !.skipped = @ + 1]
                    /\ NextRecord("skipped_empty")
                    /\ UNCHANGED rows
               ELSE /\ rows' = IF g # E THEN [rows EXCEPT ![i].gender = g] ELSE rows
                    /\ cnt' = IF g # E THEN [cnt EXCEPT !.enriched_gender = @ + 1] ELSE cnt
                    /\ cur' = [NoCur EXCEPT !.spanish = spanish, !.pos = pos,
                                            !.gender = IF g # E THEN g ELSE gender0,
                                            !.ipa_text = ipa_text]
                    /\ pc' = IF flags.RECALC_IPA \/ ipa_text = E THEN "ipa" ELSE "filter"
                    /\ UNCHANGED <<i, outcome>>
    /\ UNCHANGED <<envVars, csv, notes, images, audio, run, dirs, processed, crash, log, worked,
                   updLog, pushed, prevOut, prevPushed>>

\* the IPA chain; `down`: every lookup of this call fails (each source catches
\* its own exceptions and returns nothing)
BC_EnrichIpa(down) ==
    /\ BC /\ pc = "ipa"
    /\ down => SourceAnswers(cur.spanish) # {}
    /\ LET answering == IF down THEN {} ELSE SourceAnswers(cur.spanish)
           ip == IpaChain(flags, answering)
       IN /\ rows' = IF ip # E THEN [rows EXCEPT ![i].ipa = ip] ELSE rows
          /\ cur' = [cur EXCEPT !.ipa_text = IF ip # E THEN ip ELSE @,
                                !.calls = IpaCalls(flags, answering),
                                !.answering = answering]
          /\ cnt' = IF ip # E THEN [cnt EXCEPT !.enriched_ipa = @ + 1] ELSE cnt
    /\ pc' = "filter"
    /\ UNCHANGED <<envVars, csv, notes, images, audio, run, dirs, i, processed, crash, histVars>>

\* article, image lookup, audio name, `needs`, and the only-missing filter
BC_Filter ==
    /\ BC /\ pc = "filter"
    /\ LET article == compute_article(cur.spanish, cur.gender, cur.pos)
           fb == find_base_image(cur.spanish, images)
           audio_text == IF article # E THEN Strip(article \o <<" ">> \o cur.spanish)
                         ELSE cur.spanish
           mp3 == slugify(audio_text) \o <<".mp3">>
           needs == Needs(fb.img, mp3, cur.pos, cur.gender, cur.ipa_text, audio)
       IN /\ images' = fb.images
          /\ IF FilterSkips(flags, needs)
             THEN /\ cnt' = [cnt EXCEPT !.skipped = @ + 1]
                  /\ NextRecord("skipped_filter")
                  /\ UNCHANGED worked
             ELSE /\ worked' = worked \cup {i}
                  /\ cur' = [cur EXCEPT !.article = article, !.img = fb.img, !.mp3 = mp3]
                  /\ pc' = IF ~ImageResolved(fb.img) THEN "ensure_image" ELSE "audio"
                  /\ UNCHANGED <<cnt, i, outcome>>
    /\ UNCHANGED <<envVars, csv, notes, audio, run, dirs, rows, processed, crash, log, updLog,
                   pushed, prevOut, prevPushed>>

\* ensure_base_image; `saved`: the user saves slug.jpg during the wait
BC_EnsureImage(saved) ==
    /\ BC /\ pc = "ensure_image"
    /\ saved => flags.OPEN_IMAGE_SEARCH_IF_MISSING
    /\ LET imgs1 == IF saved THEN images \cup {slugify(cur.spanish) \o <<".jpg">>} ELSE images
           fb == find_base_image(cur.spanish, imgs1)
       IN /\ images' = fb.images
          /\ IF ~ImageResolved(fb.img)
             THEN /\ cnt' = [cnt EXCEPT !.image_missing = @ + 1]
                  /\ NextRecord("image_missing")
             ELSE /\ cur' = [cur EXCEPT !.img = fb.img]
                  /\ pc' = "audio"
                  /\ UNCHANGED <<cnt, i, outcome>>
    /\ UNCHANGED <<envVars, csv, notes, audio, run, dirs, rows, processed, crash, log, worked,
                   updLog, pushed, prevOut, prevPushed>>

\* ensure / regenerate audio; `ok`: say and ffmpeg succeed
BC_Audio(ok) ==
    /\ BC /\ pc = "audio"
    /\ LET a1 == IF flags.FORCE_REGENERATE_AUDIO THEN audio \ {cur.mp3} ELSE audio
           synth == cur.mp3 \notin a1
       IN /\ ~ok => (synth /\ ~flags.DRY_RUN)
          /\ IF ok
             THEN /\ audio' = IF synth /\ ~flags.DRY_RUN THEN a1 \cup {cur.mp3} ELSE a1
                  /\ pc' = "store"
                  /\ UNCHANGED <<cnt, i, outcome, cur>>
             ELSE /\ audio' = a1
                  /\ cnt' = [cnt EXCEPT !.audio_failed = @ + 1]
                  /\ NextRecord("audio_failed")
    /\ UNCHANGED <<envVars, csv, notes, images, run, dirs, rows, processed, crash, log, worked,
                   updLog, pushed, prevOut, prevPushed>>

\* store_media for the image and for the audio, then the field set and the tags
BC_StoreMedia ==
    /\ BC /\ pc = "store"
    /\ log' = IF ~flags.DRY_RUN /\ (cur.img \in images \/ cur.mp3 \in audio)
              THEN [log EXCEPT ![i] = @ \cup {"storeMediaFile"}] ELSE log
    /\ cur' = [cur EXCEPT !.fields = ComposeFields(rows[i], cur), !.tags = ComposeTags(cur)]
    /\ pc' = "find"
    /\ UNCHANGED <<envVars, csv, notes, images, audio, run, dirs, rows, i, processed, cnt,
                   crash, outcome, worked, updLog, pushed, prevOut, prevPushed>>

\* anki("findNotes", query=deck, model, "spanish")
BC_FindNotes ==
    /\ BC /\ pc = "find"
    /\ LET ids == IF flags.DRY_RUN THEN {} ELSE FindNotesQ(cur.spanish)
       IN /\ cur' = [cur EXCEPT !.ids = ids]
          /\ pc' = IF ids # {} THEN "info" ELSE "add"
    /\ log' = IF flags.DRY_RUN THEN log ELSE [log EXCEPT ![i] = @ \cup {"findNotes"}]
    /\ UNCHANGED <<envVars, csv, notes, images, audio, run, dirs, rows, i, processed, cnt,
                   crash, outcome, worked, updLog, pushed, prevOut, prevPushed>>

\* anki("notesInfo") and the exact match on Word: the first candidate, in the
\* order the store returns them, whose stripped Word equals spanish
BC_NotesInfo ==
    /\ BC /\ pc = "info"
    /\ LET hits == {id \in cur.ids : ExactWordMatch(NoteById(id).fields["Word"], cur.spanish)}
       IN IF hits = {}
          THEN /\ cur' = [cur EXCEPT !.existing = 0]
               /\ pc' = "add"
          ELSE \E id \in hits :
                 /\ cur' = [cur EXCEPT !.existing = id,
                                       !.matched = NoteById(id).fields["Word"],
                                       !.via = "Word"]
                 /\ pc' = "update"
    /\ log' = [log EXCEPT ![i] = @ \cup {"notesInfo"}]
    /\ UNCHANGED <<envVars, csv, notes, images, audio, run, dirs, rows, i, processed, cnt,
                   crash, outcome, worked, updLog, pushed, prevOut, prevPushed>>

\* anki("updateNoteFields", note={id, fields})
BC_UpdateNote ==
    /\ BC /\ pc = "update"
    /\ log' = [log EXCEPT ![i] = @ \cup {"updateNoteFields"}]
    /\ updLog' = updLog \cup {[call |-> "updateNoteFields", id |-> cur.existing,
                               field |-> cur.via, before |-> cur.matched,
                               want |-> cur.spanish]}
    /\ IF UpdateAnswer(cur.existing, cur.fields) = "ok"
       THEN /\ notes' = NotesAfterUpdate(cur.existing, cur.fields)
            /\ pushed' = [pushed EXCEPT ![i] = cur.fields]
            /\ pc' = "tags"
            /\ UNCHANGED crash
       ELSE /\ pc' = "crashed"
            /\ crash' = UpdateAnswer(cur.existing, cur.fields)
            /\ UNCHANGED <<notes, pushed>>
    /\ UNCHANGED <<envVars, csv, images, audio, run, dirs, rows, i, processed, cnt, cur,
                   outcome, worked, prevOut, prevPushed>>

\* anki("addTags"), updated += 1, processed += 1
BC_AddTags ==
    /\ BC /\ pc = "tags"
    /\ log' = [log EXCEPT ![i] = @ \cup {"addTags"}]
    /\ updLog' = updLog \cup {[call |-> "addTags", id |-> cur.existing,
                               field |-> cur.via, before |-> cur.matched,
                               want |-> cur.spanish]}
    /\ notes' = NotesAfterTags(cur.existing, cur.tags)
    /\ cnt' = [cnt EXCEPT !.updated = @ + 1]
    /\ processed' = processed + 1
    /\ NextRecord("updated")
    /\ UNCHANGED <<envVars, csv, images, audio, run, dirs, rows, crash, worked, pushed,
                   prevOut, prevPushed>>

\* anki("addNote", allowDuplicate False), added += 1, processed += 1
BC_AddNote ==
    /\ BC /\ pc = "add"
    /\ log' = IF flags.DRY_RUN THEN log
              ELSE [log EXCEPT ![i] = @ \cup {"addNote"}
                                        \cup (IF AddNoteAnswer(cur.fields, FALSE) = "duplicate"
                                              THEN {"duplicate"} ELSE {})]
    /\ LET ans == IF flags.DRY_RUN THEN "dry" ELSE AddNoteAnswer(cur.fields, FALSE)
       IN IF ans \in {"ok", "dry"}
          THEN /\ notes' = IF ans = "ok" THEN NotesAfterAdd(cur.fields, cur.tags) ELSE notes
               /\ pushed' = [pushed EXCEPT ![i] = cur.fields]
               /\ cnt' = [cnt EXCEPT !.added = @ + 1]
               /\ processed' = processed + 1
               /\ NextRecord("added")
               /\ UNCHANGED crash
          ELSE /\ pc' = "crashed"
               /\ crash' = ans
               /\ UNCHANGED <<notes, pushed, cnt, processed, i, cur, outcome>>
    /\ UNCHANGED <<envVars, csv, images, audio, run, dirs, rows, worked, updLog, prevOut,
                   prevPushed>>

\* write_rows(CSV_PATH, rows) and the summary
BC_WriteRows ==
    /\ BC /\ pc = "write"
    /\ csv' = [k \in 1..Len(rows) |->
                 [f \in {FIELDNAMES[j] : j \in 1..Len(FIELDNAMES)} |-> rows[k][f]]]
    /\ pc' = "done"
    /\ UNCHANGED <<envVars, notes, images, audio, run, dirs, rows, i, processed, cnt, cur,
                   crash, histVars>>

\* the request about to be sent at a position of main
BC_CallAt(p) ==
    CASE p = "store" -> "storeMediaFile"
      [] p = "find" -> "findNotes"
      [] p = "info" -> "notesInfo"
      [] p = "update" -> "updateNoteFields"
      [] p = "tags" -> "addTags"
      [] p = "add" -> "addNote"

\* A request fails (connection error, HTTP error, Anki error): anki() raises
\* and nothing in main catches it.
BC_RemoteFail ==
    /\ BC /\ pc \in {"store", "find", "info", "update", "tags", "add"}
    /\ ~flags.DRY_RUN
    /\ pc = "store" => (cur.img \in images \/ cur.mp3 \in audio)
    /\ log' = [log EXCEPT ![i] = @ \cup {BC_CallAt(pc)}]
    /\ pc' = "crashed"
    /\ crash' = "remote"
    /\ UNCHANGED <<envVars, csv, notes, images, audio, run, dirs, rows, i, processed, cnt, cur,
                   outcome, worked, updLog, pushed, prevOut, prevPushed>>

\* SIGINT: no handler is installed, KeyboardInterrupt unwinds main
BC_Interrupt ==
    /\ BC /\ pc \notin Stopped
    /\ pc' = "aborted"
    /\ crash' = "interrupt"
    /\ UNCHANGED <<envVars, csv, notes, images, audio, run, dirs, rows, i, processed, cnt, cur,
                   histVars>>

\* ------------------------------------------------------------------------
\* scripts/sentences_build.py: pure helpers
\* ------------------------------------------------------------------------
FILENAME_LEN == 64
SNIPPET_LEN == 50

Take(s, n) == SubSeq(s, 1, IF Len(s) < n THEN Len(s) ELSE n)

\* re.sub(r"_+", "_", s) and re.sub(r"\s+", " ", s): runs of c become one c
RECURSIVE Collapse(_, _)
Collapse(s, c) ==
    IF Len(s) < 2 THEN s
    ELSE IF s[1] = c /\ s[2] = c THEN Collapse(Tail(s), c)
    ELSE <<s[1]>> \o Collapse(Tail(s), c)

FilenameAtoms == (AlnumAtoms \ {"ñ"}) \cup {"_", "-"}

slugify_filename(text) ==
    LET s1 == Strip(Lower(text))
        s2 == [k \in 1..Len(s1) |-> IF s1[k] = " " THEN "_" ELSE s1[k]]
        s3 == SelectSeq(s2, LAMBDA c : c \in FilenameAtoms)
        s4 == Take(Collapse(s3, "_"), FILENAME_LEN)
    IN IF s4 = E THEN <<"sentence">> ELSE s4

\* str.replace(old, new, 1)
RECURSIVE ReplaceFirst(_, _, _)
ReplaceFirst(s, old, new) ==
    IF Len(s) < Len(old) THEN s
    ELSE IF SubSeq(s, 1, Len(old)) = old THEN new \o SubSeq(s, Len(old) + 1, Len(s))
    ELSE <<Head(s)>> \o ReplaceFirst(Tail(s), old, new)

OpenMarker(idx) == IF idx = 1 THEN "{{c1::" ELSE IF idx = 2 THEN "{{c2::" ELSE "{{c3::"

\* make_cloze over targets[k..]; a target is [target, hint]
RECURSIVE make_cloze_from(_, _, _)
make_cloze_from(s, targets, idx) ==
    IF targets = << >> THEN s
    ELSE LET target == Strip(Head(targets).target)
             hint == Strip(Head(targets).hint)
             marker == <<OpenMarker(idx)>> \o target
                       \o (IF hint # E THEN <<"::">> \o hint ELSE E) \o <<"}}">>
         IN IF target = E THEN make_cloze_from(s, Tail(targets), idx)
            ELSE make_cloze_from(ReplaceFirst(s, target, marker), Tail(targets), idx + 1)

make_cloze(text, targets) == make_cloze_from(text, targets, 1)

\* `"{{c" in cloze_txt`
HasClozeMarker(s) == \E k \in 1..Len(s) : s[k] \in {OpenMarker(1), OpenMarker(2), OpenMarker(3)}

\* pick_fields: "" stands for None
pick_fields(fields) ==
    LET field_set == {fields[k] : k \in 1..Len(fields)}
    IN [cloze_field |-> IF "Cloze" \in field_set THEN "Cloze"
                        ELSE IF "Text" \in field_set THEN "Text" ELSE "",
        text_field |-> IF "Text" \in field_set THEN "Text" ELSE "",
        extra_field |-> IF "Back Extra" \in field_set THEN "Back Extra"
                        ELSE IF "Extra" \in field_set THEN "Extra" ELSE "",
        audio_field |-> IF "Audio" \in field_set THEN "Audio" ELSE "",
        first_field |-> IF fields # << >> THEN fields[1]
                        ELSE IF "Cloze" \in field_set THEN "Cloze"
                        ELSE IF "Text" \in field_set THEN "Text" ELSE ""]

\* `val == value` with val the stripped field value of the candidate
ExactFieldMatch(val, value) == Strip(val) = value

\* find_note_by_field without a failing request: the ids it can return (the
\* first exact match in the order the store answers), {} for None
find_note_by_field(field_name, value) ==
    LET ids == FindNotesQ(Take(Collapse(value, " "), SNIPPET_LEN))
    IN {id \in ids : field_name \in DOMAIN NoteById(id).fields
                     /\ ExactFieldMatch(NoteById(id).fields[field_name], value)}

\* the field set main prepares for an item
SB_Fields(m, cloze_txt, text, item_notes, mp3) ==
    LET sound == <<"[sound:">> \o mp3 \o <<"]">>
        names == {m.cloze_field}
                 \cup (IF m.text_field # "" THEN {m.text_field} ELSE {})
                 \cup (IF m.extra_field # "" THEN {m.extra_field} ELSE {})
                 \cup (IF m.audio_field # "" THEN {m.audio_field} ELSE {})
    IN [f \in names |->
          IF f = m.audio_field THEN sound
          ELSE IF f = m.extra_field
               THEN (IF m.audio_field # "" THEN item_notes
                     ELSE Strip(item_notes \o (IF item_notes # E THEN <<"\n">> ELSE E) \o sound))
          ELSE IF f = m.text_field /\ m.text_field # m.cloze_field THEN text
          ELSE cloze_txt]

\* ------------------------------------------------------------------------
\* scripts/sentences_build.py: main
\* ------------------------------------------------------------------------
SB == prog = "sentences_build"

SB_NoCur == [text |-> E, cloze_txt |-> E, mp3 |-> E, fields |-> NoFields, tags |-> {},
             stage |-> "", nid |-> 0, matched |-> E, via |-> "", want |-> E,
             rescue |-> FALSE]

SB_NextItem(how) ==
    /\ outcome' = [outcome EXCEPT ![i] = how]
    /\ i' = i + 1
    /\ cur' = SB_NoCur
    /\ pc' = "sb_loop"

\* argument parsing, reading the items, pick_fields.  `mfFail`: the
\* modelFieldNames request fails (get_model_fields returns []).
SB_Start(mfFail) ==
    /\ SB /\ pc \in Stopped /\ run < runs
    /\ run' = run + 1
    /\ LET m == pick_fields(IF mfFail THEN << >> ELSE modelFields)
       IN /\ pc' = IF ~csvPresent \/ m.cloze_field = "" THEN "exited" ELSE "sb_loop"
          /\ crash' = IF ~csvPresent THEN "nocsv"
                      ELSE IF m.cloze_field = "" THEN "schema" ELSE ""
    /\ rows' = IF csvPresent THEN csv ELSE << >>
    /\ dirs' = IF csvPresent THEN dirs \cup {"sentences_audio"} ELSE dirs
    /\ i' = 1 /\ processed' = 0 /\ cnt' = ZeroCnt /\ cur' = SB_NoCur
    /\ log' = NoLog /\ outcome' = NoOutcome /\ worked' = {} /\ updLog' = {}
    /\ pushed' = NoPushed
    /\ UNCHANGED <<envVars, csv, notes, images, audio, prevOut, prevPushed>>

\* top of the loop: the limit test, the empty-text skip, make_cloze
SB_LoopTop ==
    /\ SB /\ pc = "sb_loop"
    /\ IF i > Len(rows) \/ LimitReached(flags.limit, cnt.added + cnt.updated)
       THEN /\ pc' = "done"
            /\ UNCHANGED <<i, cur, outcome>>
       ELSE LET text == Strip(rows[i].text)
                cloze_txt == make_cloze(text, rows[i].clozes)
            IN IF text = E THEN SB_NextItem("skipped_empty")
               ELSE IF ~HasClozeMarker(cloze_txt) THEN SB_NextItem("skipped_nocloze")
               ELSE /\ cur' = [SB_NoCur EXCEPT !.text = text, !.cloze_txt = cloze_txt,
                                               !.mp3 = slugify_filename(text) \o <<".mp3">>,
                                               !.tags = rows[i].tags]
                    /\ pc' = "sb_audio"
                    /\ UNCHANGED <<i, outcome>>
    /\ UNCHANGED <<envVars, csv, notes, images, audio, run, dirs, rows, processed, cnt, crash, log,
                   worked, updLog, pushed, prevOut, prevPushed>>

\* --regen-audio unlink, tts_to_mp3 when the file is absent; `ok`: say and
\* ffmpeg succeed (a failure raises CalledProcessError out of main)
SB_Audio(ok) ==
    /\ SB /\ pc = "sb_audio"
    /\ LET a1 == IF flags.regen_audio THEN audio \ {cur.mp3} ELSE audio
       IN /\ ~ok => cur.mp3 \notin a1
          /\ audio' = IF ok THEN a1 \cup {cur.mp3} ELSE a1
          /\ pc' = IF ok THEN "sb_store" ELSE "crashed"
          /\ crash' = IF ok THEN crash ELSE "tts"
    /\ worked' = worked \cup {i}
    /\ UNCHANGED <<envVars, csv, notes, images, run, dirs, rows, i, processed, cnt, cur, log,
                   outcome, updLog, pushed, prevOut, prevPushed>>

\* store_media(mp3.name, mp3), then the field set; `fail`: the request fails
\* (the exception leaves main)
SB_StoreMedia(fail) ==
    /\ SB /\ pc = "sb_store"
    /\ log' = [log EXCEPT ![i] = @ \cup {"storeMediaFile"}]
    /\ IF fail
       THEN /\ pc' = "crashed" /\ crash' = "remote"
            /\ UNCHANGED cur
       ELSE /\ cur' = [cur EXCEPT
                 !.fields = SB_Fields(pick_fields(modelFields), cur.cloze_txt, cur.text,
                                      Strip(rows[i].notes), cur.mp3),
                 !.stage = IF flags.update_existing THEN "cloze" ELSE ""]
            /\ pc' = IF flags.update_existing THEN "sb_find" ELSE "sb_add"
            /\ UNCHANGED crash
    /\ UNCHANGED <<envVars, csv, notes, images, audio, run, dirs, rows, i, processed, cnt,
                   outcome, worked, updLog, pushed, prevOut, prevPushed>>

\* the field and the value a lookup stage searches by
SB_LookupField(stage) ==
    LET m == pick_fields(modelFields)
    IN CASE stage = "cloze" -> m.cloze_field
         [] stage \in {"text", "rtext"} -> m.text_field
         [] stage = "rfirst" -> m.first_field

SB_LookupValue(stage) ==
    CASE stage = "cloze" -> cur.cloze_txt
      [] stage \in {"text", "rtext"} -> cur.text
      [] stage = "rfirst" -> cur.fields[pick_fields(modelFields).first_field]

\* where main goes when a lookup stage returns None
SB_AfterMiss(stage) ==
    LET m == pick_fields(modelFields)
    IN CASE stage = "cloze" -> IF m.text_field # "" THEN "text" ELSE "add"
         [] stage = "text" -> "add"
         [] stage = "rtext" ->
              IF m.first_field \in DOMAIN cur.fields /\ cur.fields[m.first_field] # E
              THEN "rfirst" ELSE "warn"
         [] stage = "rfirst" -> "warn"

\* one find_note_by_field call (findNotes, notesInfo, exact match); `fail`: a
\* request fails, which find_note_by_field catches and answers None
SB_FindNote(fail) ==
    /\ SB /\ pc = "sb_find"
    /\ log' = [log EXCEPT ![i] = @ \cup {"findNotes"}]
    /\ LET field == SB_LookupField(cur.stage)
           hits == IF fail THEN {} ELSE find_note_by_field(field, SB_LookupValue(cur.stage))
           miss == SB_AfterMiss(cur.stage)
       IN IF hits # {}
          THEN /\ \E id \in hits :
                    cur' = [cur EXCEPT !.nid = id, !.via = field,
                                       !.matched = NoteById(id).fields[field],
                                       !.want = SB_LookupValue(cur.stage),
                                       !.rescue = cur.stage \in {"rtext", "rfirst"}]
               /\ pc' = "sb_update"
               /\ UNCHANGED <<i, outcome>>
          ELSE IF miss = "warn" THEN SB_NextItem("dup_unmatched")
          ELSE /\ cur' = [cur EXCEPT !.stage = IF miss = "add" THEN "" ELSE miss]
               /\ pc' = IF miss = "add" THEN "sb_add" ELSE "sb_find"
               /\ UNCHANGED <<i, outcome>>
    /\ UNCHANGED <<envVars, csv, notes, images, audio, run, dirs, rows, processed, cnt, crash,
                   worked, updLog, pushed, prevOut, prevPushed>>

\* what main does when updateNoteFields or addTags raises: after a lookup of
\* --update-existing it falls through to addNote, in the rescue it prints
SB_UpdateRaised ==
    IF cur.rescue THEN SB_NextItem("update_failed")
    ELSE /\ pc' = "sb_add"
         /\ UNCHANGED <<i, cur, outcome>>

\* anki("updateNoteFields", note={id, fields}); `fail`: the request fails
SB_UpdateNote(fail) ==
    /\ SB /\ pc = "sb_update"
    /\ log' = [log EXCEPT ![i] = @ \cup {"updateNoteFields"}]
    /\ updLog' = updLog \cup {[call |-> "updateNoteFields", id |-> cur.nid, field |-> cur.via,
                               before |-> cur.matched,
                               want |-> cur.want]}
    /\ IF ~fail /\ UpdateAnswer(cur.nid, cur.fields) = "ok"
       THEN /\ notes' = NotesAfterUpdate(cur.nid, cur.fields)
            /\ pushed' = [pushed EXCEPT ![i] = cur.fields]
            /\ pc' = "sb_tags"
            /\ UNCHANGED <<i, cur, outcome>>
       ELSE /\ SB_UpdateRaised
            /\ UNCHANGED <<notes, pushed>>
    /\ UNCHANGED <<envVars, csv, images, audio, run, dirs, rows, processed, cnt, crash, worked,
                   prevOut, prevPushed>>

\* anki("addTags"), count_upd += 1; `fail`: the request fails
SB_AddTags(fail) ==
    /\ SB /\ pc = "sb_tags"
    /\ log' = [log EXCEPT ![i] = @ \cup {"addTags"}]
    /\ updLog' = updLog \cup {[call |-> "addTags", id |-> cur.nid, field |-> cur.via,
                               before |-> cur.matched,
                               want |-> cur.want]}
    /\ IF ~fail
       THEN /\ notes' = NotesAfterTags(cur.nid, cur.tags)
            /\ cnt' = [cnt EXCEPT !.updated = @ + 1]
            /\ SB_NextItem("updated")
       ELSE /\ SB_UpdateRaised
            /\ UNCHANGED <<notes, cnt>>
    /\ UNCHANGED <<envVars, csv, images, audio, run, dirs, rows, processed, crash, worked, pushed,
                   prevOut, prevPushed>>

\* anki("addNote", allowDuplicate False) and the start of the duplicate
\* rescue; `fail`: the request fails before the store acts on it
SB_AddNote(fail) ==
    /\ SB /\ pc = "sb_add"
    /\ LET ans == IF fail THEN "remote" ELSE AddNoteAnswer(cur.fields, FALSE)
           first == IF pick_fields(modelFields).text_field # "" THEN "rtext"
                    ELSE SB_AfterMiss("rtext")
       IN /\ log' = [log EXCEPT ![i] = @ \cup {"addNote"}
                                          \cup (IF ans = "duplicate" THEN {"duplicate"} ELSE {})]
          /\ IF ans = "ok"
             THEN /\ notes' = NotesAfterAdd(cur.fields, cur.tags)
                  /\ pushed' = [pushed EXCEPT ![i] = cur.fields]
                  /\ cnt' = [cnt EXCEPT !.added = @ + 1]
                  /\ SB_NextItem("added")
             ELSE /\ UNCHANGED <<notes, pushed, cnt>>
                  /\ IF ans # "duplicate" THEN SB_NextItem("add_failed")
                     ELSE IF first = "warn" THEN SB_NextItem("dup_unmatched")
                     ELSE /\ cur' = [cur EXCEPT !.stage = first]
                          /\ pc' = "sb_find"
                          /\ UNCHANGED <<i, outcome>>
    /\ UNCHANGED <<envVars, csv, images, audio, run, dirs, rows, processed, crash, worked, updLog,
                   prevOut, prevPushed>>

\* ------------------------------------------------------------------------
\* ipa_enricher.py: main
\* ------------------------------------------------------------------------
IE == prog = "ipa_enricher"

NoDisable == [DISABLE_WIKT |-> FALSE, DISABLE_PHON |-> FALSE, DISABLE_EPIT |-> FALSE]

\* read_rows
IE_Start ==
    /\ IE /\ pc \in Stopped /\ run < runs
    /\ run' = run + 1
    /\ rows' = IF csvPresent THEN csv ELSE << >>
    /\ pc' = IF csvPresent THEN "ie_loop" ELSE "exited"
    /\ crash' = IF csvPresent THEN "" ELSE "nocsv"
    /\ i' = 1 /\ processed' = 0 /\ cur' = NoCur
    /\ UNCHANGED <<envVars, csv, notes, images, audio, cnt, histVars, dirs>>

\* one iteration: skip a row that has an ipa or no word, else run the chain;
\* `down`: every source fails for this word (each catches and returns "")
IE_Enrich(down) ==
    /\ IE /\ pc = "ie_loop" /\ i <= Len(rows)
    /\ LET word == Strip(rows[i].spanish)
           looked == rows[i].ipa = E /\ word # E
           answering == IF down THEN {} ELSE SourceAnswers(word)
           ipa == IF looked THEN IpaChain(NoDisable, answering) ELSE E
       IN /\ down => (looked /\ SourceAnswers(word) # {})
          /\ cur' = IF looked THEN [NoCur EXCEPT !.spanish = word,
                                                 !.calls = IpaCalls(NoDisable, answering),
                                                 !.answering = answering]
                    ELSE NoCur
          /\ rows' = IF ipa # E THEN [rows EXCEPT ![i].ipa = ipa] ELSE rows
          /\ processed' = IF ipa # E THEN processed + 1 ELSE processed
    /\ i' = i + 1
    /\ UNCHANGED <<envVars, csv, notes, images, audio, run, dirs, pc, cnt, crash, histVars>>

\* write_rows(OUT_PATH, rows)
IE_WriteRows ==
    /\ IE /\ pc = "ie_loop" /\ i > Len(rows)
    /\ csv' = [k \in 1..Len(rows) |->
                 [f \in {FIELDNAMES[j] : j \in 1..Len(FIELDNAMES)} |-> rows[k][f]]]
    /\ pc' = "done"
    /\ UNCHANGED <<envVars, notes, images, audio, run, dirs, rows, i, processed, cnt, cur, crash,
                   histVars>>

\* ------------------------------------------------------------------------
\* scripts/enrich_pos_gender.py: main
\* ------------------------------------------------------------------------
EPG == prog = "enrich_pos_gender"

\* the hints file of the modelled runs: "sol: noun"
HintsPos(key) == IF key = W_sol THEN S_noun ELSE E

\* wiki_pos_gender for the modelled words, as <<pos, gender>>
WikiPosGender(word) ==
    IF word = W_oso THEN <<S_noun, S_m>>
    ELSE IF word = W_sol THEN <<S_noun, S_m>>
    ELSE IF word = W_ir THEN <<S_verb, E>>
    ELSE IF word = W_mar THEN <<S_noun, S_m>>
    ELSE <<E, E>>

S_adjective == <<"a","d","j","e","c","t","i","v","e">>

SENSE_MAP(sense) ==
    IF sense = S_verb THEN S_verb
    ELSE IF sense \in {S_adjective, <<"a","d","j",".">>, S_adj} THEN S_adj
    ELSE IF sense = S_noun THEN S_noun
    ELSE E

\* INF_VERB.match: one letter or more, then ar, er or ir
INF_VERB(w) ==
    /\ Len(w) >= 3
    /\ \E suf \in INF_SUFFIXES : EndsWith(w, suf)
    /\ \A k \in 1..Len(w) : LowerAtom(w[k]) \in (AlnumAtoms \cup {"á", "é", "í", "ó", "ú"})
                            /\ LowerAtom(w[k]) \notin {"0","1","2","3","4","5","6","7","8","9"}

\* the pos and gender one loop iteration leaves in a row; wiki: the answer of
\* wiki_pos_gender for this row
EPG_RowAfter(r, fl, wiki) ==
    LET es == Strip(r.spanish)
        pos0 == Lower(Strip(r.pos))
        gen0 == Lower(Strip(r.gender))
        sense == Lower(Strip(r.sense))
        hp == HintsPos(Lower(es))
        pos1 == IF hp \in {S_noun, S_verb, S_adj} THEN hp ELSE pos0
        pos2 == IF pos1 = E /\ wiki[1] # E THEN wiki[1] ELSE pos1
        gen2 == IF pos1 = E /\ wiki[1] # E /\ fl.gender_nouns /\ pos2 = S_noun /\ gen0 = E
                   /\ wiki[2] \in {S_m, S_f}
                THEN wiki[2] ELSE E
        pos3 == IF pos2 = E /\ sense # E /\ SENSE_MAP(sense) # E THEN SENSE_MAP(sense) ELSE pos2
        pos4 == IF pos3 = E /\ fl.guess_verbs /\ INF_VERB(StripAccents(es)) THEN S_verb ELSE pos3
    IN IF es = E THEN r
       ELSE IF fl.pos_only /\ pos0 = E
            THEN [r EXCEPT !.pos = IF pos4 # E THEN pos4 ELSE r.pos,
                           !.gender = IF gen2 # E THEN gen2 ELSE r.gender]
       ELSE IF fl.gender_nouns /\ pos0 = S_noun /\ gen0 = E /\ wiki[2] \in {S_m, S_f}
            THEN [r EXCEPT !.gender = wiki[2]]
       ELSE r

\* load_hints and read_rows
EPG_Start ==
    /\ EPG /\ pc \in Stopped /\ run < runs
    /\ run' = run + 1
    /\ rows' = IF csvPresent THEN csv ELSE << >>
    /\ pc' = IF csvPresent THEN "epg_loop" ELSE "crashed"
    /\ crash' = IF csvPresent THEN "" ELSE "nocsv"
    /\ dirs' = dirs \cup {"prompts"}
    /\ i' = 1 /\ processed' = 0
    /\ cur' = NoCur /\ updLog' = {}
    /\ UNCHANGED <<envVars, csv, notes, images, audio, cnt, log, outcome, worked, pushed,
                   prevOut, prevPushed>>

\* one loop iteration; `down`: the Wiktionary fetches fail (fetch_wiki returns "");
\* the log keeps, over the runs, the rows a fetch failed for
EPG_Row(down) ==
    /\ EPG /\ pc = "epg_loop" /\ i <= Len(rows)
    /\ LET es == Strip(rows[i].spanish)
           after == EPG_RowAfter(rows[i], flags, IF down THEN <<E, E>> ELSE WikiPosGender(es))
       IN /\ down => EPG_RowAfter(rows[i], flags, WikiPosGender(es)) # after
          /\ rows' = [rows EXCEPT ![i] = after]
          /\ processed' = IF after # rows[i] THEN processed + 1 ELSE processed
    /\ log' = IF down THEN [log EXCEPT ![i] = @ \cup {"fetch_failed"}] ELSE log
    /\ i' = i + 1
    /\ UNCHANGED <<envVars, csv, notes, images, audio, run, dirs, pc, cnt, cur, crash, outcome,
                   worked, updLog, pushed, prevOut, prevPushed>>

\* write_rows(rows)
EPG_WriteRows ==
    /\ EPG /\ pc = "epg_loop" /\ i > Len(rows)
    /\ csv' = [k \in 1..Len(rows) |->
                 [f \in {FIELDNAMES[j] : j \in 1..Len(FIELDNAMES)} |-> rows[k][f]]]
    /\ pc' = IF flags.push /\ processed > 0 THEN "epg_push" ELSE "done"
    /\ UNCHANGED <<envVars, notes, images, audio, run, dirs, rows, i, processed, cnt, cur, crash,
                   histVars>>

\* --push: findNotes over the deck and notesInfo; `fail`: a request fails (the
\* except clause warns and the program ends)
EPG_PushFind(fail) ==
    /\ EPG /\ pc = "epg_push"
    /\ LET ids == {n.id : n \in {m \in notes : m.deck = DECK}}
       IN /\ cur' = [NoCur EXCEPT !.ids = IF fail THEN {} ELSE ids]
          /\ pc' = IF fail \/ ids = {} THEN "done" ELSE "epg_pushnote"
    /\ UNCHANGED <<envVars, csv, notes, images, audio, run, dirs, rows, i, processed, cnt, crash,
                   histVars>>

\* pos_map[word]: the stripped pos and gender of the last row with that key
EPG_PosMap(word) ==
    LET ks == {k \in 1..Len(rows) : Lower(Strip(rows[k].spanish)) = word}
        k == CHOOSE x \in ks : \A y \in ks : y <= x
    IN IF ks = {} THEN << >> ELSE <<Strip(rows[k].pos), Strip(rows[k].gender)>>

\* the fields the push sends for a note (an empty function: no request)
EPG_Upd(n) ==
    LET word == Lower(Strip(n.fields["Word"]))
        pg == EPG_PosMap(word)
        names == IF word = E \/ pg = << >> THEN {}
                 ELSE (IF pg[1] # E THEN {"POS"} ELSE {})
                      \cup (IF pg[2] \in {S_m, S_f}
                            THEN {"Gender"} \cup ({"Article"} \cap DOMAIN n.fields) ELSE {})
    IN [f \in names |->
          IF f = "POS" THEN pg[1]
          ELSE IF f = "Gender" THEN pg[2]
          ELSE IF pg[2] = S_m THEN S_el ELSE S_la]

\* the next note of the push loop; `fail`: updateNoteFields fails
EPG_PushNote(fail) ==
    /\ EPG /\ pc = "epg_pushnote"
    /\ LET id == CHOOSE x \in cur.ids : \A y \in cur.ids : x <= y
           upd == EPG_Upd(NoteById(id))
       IN /\ fail => DOMAIN upd # {}
          /\ notes' = IF DOMAIN upd # {} /\ ~fail THEN NotesAfterUpdate(id, upd) ELSE notes
          /\ cur' = [cur EXCEPT !.ids = @ \ {id}]
          /\ pc' = IF fail \/ cur.ids = {id} THEN "done" ELSE "epg_pushnote"
    /\ UNCHANGED <<envVars, csv, images, audio, run, dirs, rows, i, processed, cnt, crash, histVars>>

\* ------------------------------------------------------------------------
\* translate_pick.py
\* ------------------------------------------------------------------------
TP == prog = "translate_pick"

\* write_rows: the file content written for the in-memory rows
TP_File(rws) ==
    [k \in 1..Len(rws) |-> [f \in {FIELDNAMES[j] : j \in 1..Len(FIELDNAMES)} |-> rws[k][f]]]

\* build_candidates for the modelled glosses, as [default, cands]
build_candidates(eng) ==
    IF eng = <<"b","e","a","r">> THEN [default |-> W_oso, cands |-> <<W_oso>>]
    ELSE [default |-> E, cands |-> << >>]

\* heuristic_gender; EXCEPTIONS restricted to the head words of the model
heuristic_gender(word) ==
    LET w == Lower(word)
    IN IF w \in GENDER_EX_KEYS THEN GENDER_EX(w)
       ELSE IF \E suf \in FEM_SUFFIXES : EndsWith(w, suf) THEN S_f
       ELSE IF \E suf \in MASC_SUFFIXES : EndsWith(w, suf) THEN S_m
       ELSE IF EndsWith(w, <<"a">>) THEN S_f
       ELSE IF EndsWith(w, <<"o">>) THEN S_m
       ELSE E

\* detect_gender_if_noun; wikt: the answer of wiktionary_gender for the head
detect_gender_if_noun(spanish, pos, wikt) ==
    LET head == Split(Strip(spanish))[1]
    IN IF pos # E /\ pos # S_noun THEN E
       ELSE IF \E suf \in INF_SUFFIXES : EndsWith(head, suf) THEN E
       ELSE IF wikt # E THEN wikt
       ELSE heuristic_gender(head)

\* wiktionary_gender and wiktionary_pos for the modelled words
TP_WiktGender(head) == IF head \in {W_oso, W_mar} THEN S_m ELSE E
TP_WiktPos(word) == IF word \in {W_oso, W_mar} THEN <<S_noun>> ELSE << >>

guess_pos(spanish, sense) ==
    LET sense_low == Lower(sense)
    IN IF sense_low \in {S_noun, S_verb, S_adjective} THEN <<sense_low>>
       ELSE IF \E suf \in INF_SUFFIXES : EndsWith(Lower(spanish), suf) THEN <<S_verb>>
       ELSE << >>

\* pos_cands of main: the found tags in the order noun, adjective, verb, and
\* all three when none was found
TP_PosCands(spanish, sense, wikt) ==
    LET found == {wikt[k] : k \in 1..Len(wikt)}
                 \cup {guess_pos(spanish, sense)[k] : k \in 1..Len(guess_pos(spanish, sense))}
        sorted == SelectSeq(<<S_noun, S_adjective, S_verb>>, LAMBDA t : t \in found)
    IN IF sorted = << >> THEN <<S_noun, S_adjective, S_verb>> ELSE sorted

S_none == <<"n","o","n","e">>

\* g_cands of main
TP_GenderCands(g_wikt) ==
    (IF g_wikt # E THEN <<g_wikt>> ELSE << >>)
    \o SelectSeq(<<S_m, S_f, S_none>>, LAMBDA g : g # g_wikt)

WordAtom(c) == LowerAtom(c) \in (AlnumAtoms \cup {"á", "é", "í", "ó", "ú", "_"})

\* the (m|f) group matched in a typed answer, E for no match:
\* re.search(r"\b\((m|f)\)\b") or re.search(r"\b(m|f)\b$")
TP_TypedGender(ans) ==
    LET n == Len(ans)
        ks == {k \in 2..(n - 3) : /\ WordAtom(ans[k - 1]) /\ ans[k] = "("
                                  /\ LowerAtom(ans[k + 1]) \in {"m", "f"}
                                  /\ ans[k + 2] = ")" /\ WordAtom(ans[k + 3])}
        k1 == CHOOSE k \in ks : \A j \in ks : k <= j
    IN IF ks # {} THEN <<LowerAtom(ans[k1 + 1])>>
       ELSE IF n >= 1 /\ LowerAtom(ans[n]) \in {"m", "f"} /\ (n = 1 \/ ~WordAtom(ans[n - 1]))
            THEN <<LowerAtom(ans[n])>>
       ELSE E

\* re.sub(r"\s*\((m|f)\)\s*", " ", ans)
RECURSIVE TP_SubParen(_)
TP_SubParen(s) ==
    LET t == LStrip(s)
    IN IF s = E THEN E
       ELSE IF Len(t) >= 3 /\ t[1] = "(" /\ LowerAtom(t[2]) \in {"m", "f"} /\ t[3] = ")"
            THEN <<" ">> \o TP_SubParen(LStrip(SubSeq(t, 4, Len(t))))
       ELSE <<Head(s)>> \o TP_SubParen(Tail(s))

\* re.sub(r"\s\b(m|f)\b\s*$", "", ans).strip()
TP_SubTail(s) ==
    LET t == RStrip(s)
        n == Len(t)
    IN IF n >= 2 /\ LowerAtom(t[n]) \in {"m", "f"} /\ IsSpace(t[n - 1])
       THEN Strip(SubSeq(t, 1, n - 2))
       ELSE Strip(s)

\* the first row at or after j that main prompts for (Len + 1: none)
TP_NextPrompt(rws, j) ==
    LET ks == {k \in j..Len(rws) : rws[k].spanish = E}
    IN IF ks = {} THEN Len(rws) + 1 ELSE CHOOSE k \in ks : \A x \in ks : k <= x

\* run the loop from row j to the next prompt, or to the final write_rows;
\* written: write_rows ran before the loop went on
TP_Continue(rws, j, written) ==
    LET n == TP_NextPrompt(rws, j)
    IN /\ rows' = rws /\ i' = n
       /\ pc' = IF n > Len(rws) THEN "done" ELSE "tp_main"
       /\ csv' = IF written \/ n > Len(rws) THEN TP_File(rws) ELSE csv

\* read_rows and the loop up to the first prompt
TP_Start ==
    /\ TP /\ pc \in Stopped /\ run < runs
    /\ run' = run + 1
    /\ IF csvPresent
       THEN TP_Continue(csv, 1, FALSE) /\ crash' = ""
       ELSE pc' = "exited" /\ crash' = "nocsv" /\ UNCHANGED <<rows, i, csv>>
    /\ processed' = 0
    /\ UNCHANGED <<envVars, notes, images, audio, cnt, cur, histVars, dirs>>

\* the answers typed at the main prompt (after strip)
TP_Answers ==
    {E, <<"s">>, <<"p">>, <<"q">>, <<"o">>, <<"u">>, <<"d">>, <<"g">>, <<"1">>,
     W_oso, W_oso \o <<" ", "m">>, W_oso \o <<" ", "(", "m", ")">>, W_ir \o <<" ", "f">>,
     W_mar}

\* the main prompt is answered: the command is carried out, up to the next
\* input() or the end of main
TP_Answer(ans) ==
    /\ TP /\ pc = "tp_main" /\ ans \in TP_Answers
    /\ LET row == rows[i]
           bc == build_candidates(row.english)
           cmd == Lower(ans)
           g == TP_TypedGender(ans)
           typed == IF g # E THEN [row EXCEPT !.gender = g,
                                              !.spanish = TP_SubTail(TP_SubParen(ans))]
                    ELSE [row EXCEPT !.spanish = ans]
           picked ==
             IF ans = E \/ cmd = <<"d">> THEN bc.default
             ELSE IF bc.cands # << >> THEN bc.cands[1] ELSE E
           set == IF ans = E \/ cmd \in {<<"d">>, <<"1">>}
                  THEN (IF picked # E THEN [row EXCEPT !.spanish = picked] ELSE row)
                  ELSE typed
           rows1 == [rows EXCEPT ![i] = set]
       IN IF cmd = <<"q">> THEN
               /\ pc' = "done" /\ csv' = TP_File(rows) /\ UNCHANGED <<rows, i>>
          ELSE IF cmd = <<"s">> \/ (ans = E /\ bc.default = E) THEN
               TP_Continue(rows, i + 1, FALSE)
          ELSE IF cmd = <<"p">> THEN
               TP_Continue(rows, IF i > 1 THEN i - 1 ELSE 1, FALSE)
          ELSE IF cmd \in {<<"o">>, <<"g">>} \/ (cmd \in {<<"d">>, <<"1">>} /\ picked = E) THEN
               TP_Continue(rows, i, FALSE)
          ELSE IF cmd = <<"u">> THEN
               TP_Continue([rows EXCEPT ![i].spanish = E, ![i].gender = E], i, TRUE)
          ELSE IF set.spanish # E THEN
               /\ rows' = rows1 /\ pc' = "tp_pos" /\ UNCHANGED <<i, csv>>
          ELSE TP_Continue(rows1, i + 1, TRUE)
    /\ UNCHANGED <<envVars, notes, images, audio, run, dirs, processed, cnt, cur, crash, histVars>>

TP_PosAnswers == {E, <<"1">>, S_noun, S_verb}

\* the pos prompt is answered; `down`: wiktionary_pos found nothing
TP_PosAnswer(ans_pos, down) ==
    /\ TP /\ pc = "tp_pos" /\ ans_pos \in TP_PosAnswers
    /\ LET row == rows[i]
           wikt == IF down THEN << >> ELSE TP_WiktPos(row.spanish)
           pos_cands == TP_PosCands(row.spanish, row.sense, wikt)
           pos_default == IF row.pos # E THEN row.pos ELSE pos_cands[1]
           pos == IF ans_pos = <<"1">> THEN pos_cands[1]
                  ELSE IF ans_pos \in {S_noun, S_verb, S_adjective} THEN ans_pos
                  ELSE IF row.pos = E THEN pos_default
                  ELSE row.pos
       IN /\ down => TP_WiktPos(row.spanish) # << >>
          /\ IF pos = S_noun
             THEN /\ rows' = [rows EXCEPT ![i].pos = pos]
                  /\ pc' = "tp_gender"
                  /\ UNCHANGED <<i, csv>>
             ELSE TP_Continue([rows EXCEPT ![i].pos = pos, ![i].gender = E], i + 1, TRUE)
    /\ UNCHANGED <<envVars, notes, images, audio, run, dirs, processed, cnt, cur, crash, histVars>>

TP_GenderAnswers == {E, <<"1">>, <<"2">>, S_f, <<"n">>}

\* the gender prompt is answered; `down`: wiktionary_gender found nothing
TP_GenderAnswer(ans_g, down) ==
    /\ TP /\ pc = "tp_gender" /\ ans_g \in TP_GenderAnswers
    /\ LET row == rows[i]
           head == Split(Strip(row.spanish))[1]
           g_wikt == detect_gender_if_noun(row.spanish, S_noun,
                                           IF down THEN E ELSE TP_WiktGender(head))
           g_cands == TP_GenderCands(g_wikt)
           g_default == IF row.gender # E THEN row.gender
                        ELSE IF g_wikt # E THEN g_wikt ELSE S_none
           gender == IF ans_g = <<"1">> THEN g_cands[1]
                     ELSE IF ans_g = <<"2">> THEN g_cands[2]
                     ELSE IF ans_g = <<"n">> THEN S_none
                     ELSE IF ans_g \in {S_m, S_f, S_none} THEN ans_g
                     ELSE IF row.gender = E THEN g_default
                     ELSE row.gender
       IN /\ down => TP_WiktGender(head) # E
          /\ TP_Continue([rows EXCEPT ![i].gender = gender], i + 1, TRUE)
    /\ UNCHANGED <<envVars, notes, images, audio, run, dirs, processed, cnt, cur, crash, histVars>>

\* ------------------------------------------------------------------------
\* Initial states
\* ------------------------------------------------------------------------
Row(english, sense, pos, spanish, gender, ipa) ==
    [english |-> english, sense |-> sense, pos |-> pos, spanish |-> spanish,
     gender |-> gender, ipa |-> ipa, notes |-> E]

T_bear == <<"b","e","a","r">>
T_sun == <<"s","u","n">>
T_go == <<"g","o">>
T_sea == <<"s","e","a">>
T_wing == <<"w","i","n","g">>

RowChoices ==
    {Row(T_bear, E, S_noun, W_oso, E, E),
     Row(T_bear, E, S_noun, <<" ">> \o W_oso, S_m, IPA_WIKT),
     Row(T_sun, E, S_noun, W_sol, E, IPA_PHON),
     Row(T_wing, E, <<"N","o","u","n">>, W_ala, <<"F">>, <<" ">>),
     Row(T_bear, E, S_noun, E, S_f, E)}

\* record store files whose header has a column the schema does not know
\* (csv.DictReader hands it to every row)
WideCsvs ==
    {[k \in RowIdx |-> [f \in DOMAIN c[k] \cup {"extra"} |->
                           IF f = "extra" THEN <<"x">> ELSE c[k][f]]] :
       c \in [RowIdx -> {Row(T_bear, E, S_noun, W_oso, E, E),
                         Row(T_sea, <<"a">>, S_noun, W_mar, E, <<" ">>)}]}

\* a record store with a feminine noun of the euphony list and a noun the
\* enrichment still has to fill
EuphonyCsv ==
    [k \in RowIdx |-> IF k = 1 THEN Row(T_wing, E, S_noun, W_ala, S_f, E)
                      ELSE Row(T_bear, E, S_noun, W_oso, E, E)]

\* a record store with a word the hints file knows and no pos yet
HintedCsv ==
    [k \in RowIdx |-> IF k = 1 THEN Row(T_sun, E, E, W_sol, E, E)
                      ELSE Row(T_bear, E, S_noun, W_oso, S_m, IPA_WIKT)]

PictureNote(id, deck, word) ==
    [id |-> id, deck |-> deck, tags |-> {},
     fields |-> [f \in {EXPECTED_FIELDS[k] : k \in 1..Len(EXPECTED_FIELDS)} |->
                   IF f = "Word" THEN word ELSE E]]

OsoMp3 == <<"e","l","_","o","s","o",".mp3">>
SomeImages == {W_oso \o <<".jpg">>, W_sol \o <<".jpg">>, W_ala \o <<".jpg">>}

\* The note store and the media directories a run of build_cards starts from
BC_Envs ==
    {[notes |-> {}, images |-> {}, audio |-> {}, pillow |-> TRUE],
     [notes |-> {}, images |-> SomeImages, audio |-> {}, pillow |-> FALSE],
     [notes |-> {PictureNote(1, DECK, W_oso \o <<" ">>), PictureNote(2, DECK, W_osos)},
      images |-> SomeImages, audio |-> {OsoMp3}, pillow |-> FALSE],
     [notes |-> {PictureNote(1, OTHER_DECK, W_oso)},
      images |-> SomeImages, audio |-> {OsoMp3}, pillow |-> TRUE]}

FlagSet(dry, disable) ==
    [ONLY_MISSING : BOOLEAN, FORCE_REGENERATE_AUDIO : BOOLEAN, RECALC_IPA : BOOLEAN,
     RECALC_POS : BOOLEAN, OPEN_IMAGE_SEARCH_IF_MISSING : BOOLEAN, DRY_RUN : dry,
     LIMIT : {0, 1}, DISABLE_WIKT : disable, DISABLE_PHON : disable,
     DISABLE_EPIT : {FALSE}]

\* the directories that exist before the first run: those that hold a file
InitDirs ==
    {"gender"}
    \cup (IF images # {} THEN {"images"} ELSE {})
    \cup (IF audio # {} THEN {IF prog = "sentences_build" THEN "sentences_audio" ELSE "audio"}
          ELSE {})

InitRun ==
    /\ dirs = InitDirs
    /\ run = 0 /\ pc = "idle" /\ rows = << >> /\ i = 1 /\ processed = 0
    /\ cnt = ZeroCnt /\ cur = NoCur /\ crash = ""
    /\ log = NoLog /\ outcome = NoOutcome /\ worked = {} /\ updLog = {}
    /\ pushed = NoPushed /\ prevOut = NoOutcome /\ prevPushed = NoPushed

\* one run of build_cards from any modelled record store, note store and media
BC_Init ==
    /\ prog = "build_cards"
    /\ csvPresent \in BOOLEAN
    /\ runs = 1
    /\ csv \in [RowIdx -> RowChoices] \cup WideCsvs
    /\ \E e \in BC_Envs :
         notes = e.notes /\ images = e.images /\ audio = e.audio /\ pillow = e.pillow
    /\ \/ flags \in FlagSet({FALSE}, {FALSE}) /\ modelFields = EXPECTED_FIELDS
       \/ /\ flags \in FlagSet(BOOLEAN, BOOLEAN)
          /\ flags.ONLY_MISSING /\ ~flags.RECALC_POS /\ flags.LIMIT = 0
          /\ flags.OPEN_IMAGE_SEARCH_IF_MISSING
          /\ modelFields \in {EXPECTED_FIELDS, SubSeq(EXPECTED_FIELDS, 1, 7)}
    /\ InitRun

BC_Next ==
    \/ \E f \in BOOLEAN : BC_Start(f)
    \/ BC_LoopTop
    \/ \E down \in BOOLEAN : BC_EnrichIpa(down)
    \/ BC_Filter
    \/ \E sv \in BOOLEAN : BC_EnsureImage(sv)
    \/ \E ok \in BOOLEAN : BC_Audio(ok)
    \/ BC_StoreMedia
    \/ BC_FindNotes
    \/ BC_NotesInfo
    \/ BC_UpdateNote
    \/ BC_AddTags
    \/ BC_AddNote
    \/ BC_WriteRows
    \/ BC_RemoteFail
    \/ BC_Interrupt

\* build_cards run MaxRuns times in a row on the same store and media, with
\* answering sources, a working speech synthesis, a reachable remote store,
\* no interrupt, and a user who saves no image
TwiceInit ==
    /\ prog = "build_cards"
    /\ csvPresent = TRUE
    /\ runs = MaxRuns
    /\ csv \in [RowIdx -> RowChoices]
    /\ \E e \in BC_Envs :
         notes = e.notes /\ images = e.images /\ audio = e.audio /\ pillow = e.pillow
    /\ flags \in FlagSet({FALSE}, {FALSE}) /\ modelFields = EXPECTED_FIELDS
    /\ InitRun

TwiceNext ==
    \/ BC_Start(FALSE)
    \/ BC_LoopTop
    \/ BC_EnrichIpa(FALSE)
    \/ BC_Filter
    \/ BC_EnsureImage(FALSE)
    \/ BC_Audio(TRUE)
    \/ BC_StoreMedia
    \/ BC_FindNotes
    \/ BC_NotesInfo
    \/ BC_UpdateNote
    \/ BC_AddTags
    \/ BC_AddNote
    \/ BC_WriteRows

\* --- sentences_build: items, models, stores ---
Item(text, clozes) ==
    [text |-> text, clozes |-> clozes, notes |-> <<"x">>, tags |-> {<<"sentences">>}]

Target(t) == [target |-> t, hint |-> E]

X_el_oso == <<"e","l"," ","o","s","o">>
X_el_oso_ya == <<"e","l"," ","o","s","o"," ","y","a">>

ItemChoices ==
    {Item(X_el_oso, <<Target(W_oso)>>),
     Item(X_el_oso, <<Target(S_el)>>),
     Item(X_el_oso_ya, <<Target(W_oso)>>),
     Item(X_el_oso, << >>),
     Item(<<" ">>, <<Target(W_oso)>>)}

\* Anki's stock Cloze model, and two models with separate Cloze and Text fields
SB_Models ==
    {<<"Text", "Back Extra">>,
     <<"Cloze", "Text", "Back Extra", "Audio">>,
     <<"Text", "Cloze", "Back Extra">>}

\* a note of another deck made from the first item choice under the model mf
SB_ForeignNote(mf) ==
    LET text == X_el_oso
        cloze_txt == make_cloze(text, <<Target(W_oso)>>)
        fields == SB_Fields(pick_fields(mf), cloze_txt, text, <<"x">>,
                            slugify_filename(text) \o <<".mp3">>)
    IN [id |-> 1, deck |-> OTHER_DECK, tags |-> {},
        fields |-> [f \in {mf[k] : k \in 1..Len(mf)} |->
                      IF f \in DOMAIN fields THEN fields[f] ELSE E]]

SB_Flags == [update_existing : BOOLEAN, regen_audio : BOOLEAN, limit : {0, 1}]

\* MaxRuns runs of sentences_build over the same items, from an empty deck
SB_Init ==
    /\ prog = "sentences_build"
    /\ csvPresent \in BOOLEAN
    /\ runs = MaxRuns
    /\ csv \in [RowIdx -> ItemChoices]
    /\ modelFields \in SB_Models
    /\ notes \in {{}, {SB_ForeignNote(modelFields)}}
    /\ images = {} /\ audio = {} /\ pillow = FALSE
    /\ flags \in SB_Flags
    /\ InitRun

SB_Next ==
    \/ \E f \in BOOLEAN : SB_Start(f)
    \/ SB_LoopTop
    \/ \E ok \in BOOLEAN : SB_Audio(ok)
    \/ \E f \in BOOLEAN : SB_StoreMedia(f)
    \/ \E f \in BOOLEAN : SB_FindNote(f)
    \/ \E f \in BOOLEAN : SB_UpdateNote(f)
    \/ \E f \in BOOLEAN : SB_AddTags(f)
    \/ \E f \in BOOLEAN : SB_AddNote(f)

\* --- the CSV programs: ipa_enricher, enrich_pos_gender, translate_pick ---
CsvRowChoices ==
    RowChoices
    \cup {Row(T_sun, E, S_noun, W_sol, <<" ">>, E),
          Row(T_go, S_verb, E, W_ir, E, E),
          Row(T_sea, E, S_noun, W_mar, E, E)}

NoFlags == << >>

IE_Init ==
    /\ prog = "ipa_enricher"
    /\ csvPresent \in BOOLEAN
    /\ runs = MaxRuns
    /\ csv \in [RowIdx -> CsvRowChoices]
    /\ modelFields = EXPECTED_FIELDS /\ notes = {}
    /\ images = {} /\ audio = {} /\ pillow = FALSE
    /\ flags = NoFlags
    /\ InitRun

EPG_Flags == [pos_only : BOOLEAN, gender_nouns : BOOLEAN, guess_verbs : BOOLEAN,
              push : BOOLEAN]

EPG_Init ==
    /\ prog = "enrich_pos_gender"
    /\ csvPresent \in BOOLEAN
    /\ runs = MaxRuns
    /\ csv \in [RowIdx -> CsvRowChoices] \cup {EuphonyCsv, HintedCsv}
    /\ modelFields = EXPECTED_FIELDS
    /\ notes \in {{}, {PictureNote(1, DECK, <<"O","s","o"," ">>), PictureNote(2, DECK, W_sol)},
                  {PictureNote(1, DECK, W_ala)}}
    /\ images = {} /\ audio = {} /\ pillow = FALSE
    /\ flags \in EPG_Flags
    /\ InitRun

TP_Init ==
    /\ prog = "translate_pick"
    /\ csvPresent \in BOOLEAN
    /\ runs = MaxRuns
    /\ csv \in [RowIdx -> CsvRowChoices]
    /\ modelFields = EXPECTED_FIELDS /\ notes = {}
    /\ images = {} /\ audio = {} /\ pillow = FALSE
    /\ flags = NoFlags
    /\ InitRun

IE_Next ==
    \/ IE_Start
    \/ \E down \in BOOLEAN : IE_Enrich(down)
    \/ IE_WriteRows

EPG_Next ==
    \/ EPG_Start
    \/ \E down \in BOOLEAN : EPG_Row(down)
    \/ EPG_WriteRows
    \/ \E f \in BOOLEAN : EPG_PushFind(f)
    \/ \E f \in BOOLEAN : EPG_PushNote(f)

TP_Next ==
    \/ TP_Start
    \/ \E ans \in TP_Answers : TP_Answer(ans)
    \/ \E ans \in TP_PosAnswers, down \in BOOLEAN : TP_PosAnswer(ans, down)
    \/ \E ans \in TP_GenderAnswers, down \in BOOLEAN : TP_GenderAnswer(ans, down)

\* --- build_cards.py: voice selection ---
\* the module-level default of VOICE, and the fixed fallback voices
VOICE == <<"Paulina">>
FALLBACK_VOICES == <<<<"Paulina">>, <<"Luciana">>, <<"Diego">>, <<"Monica">>, <<"Jorge">>>>

\* PREFERRED_VOICES: built once, when the module is loaded, from the VOICE of
\* that moment; main's later `VOICE = args.voice` does not rebuild the list
PREFERRED_VOICES == <<VOICE>> \o FALLBACK_VOICES

\* the first non-empty voice of a list whose test synthesis succeeds, else ""
RECURSIVE FirstWorking(_, _)
FirstWorking(voices, working) ==
    IF voices = << >> THEN E
    ELSE IF Head(voices) # E /\ Head(voices) \in working THEN Head(voices)
    ELSE FirstWorking(Tail(voices), working)

\* pick_working_voice; picked: the value of _PICKED_VOICE
NoneVoice == <<"None">>
pick_working_voice(picked, working) ==
    IF picked # NoneVoice THEN picked ELSE FirstWorking(PREFERRED_VOICES, working)

\* --- the dictionary documents and their parsers ---
\* A fetched wikitext is a sequence of lines, each one of: the header of the
\* Spanish section, the header of another language's section, a line that
\* reads "sustantivo masculino" / "sustantivo femenino", an IPA template.
H_ES == "== {{lengua|es}} =="
H_PT == "== {{lengua|pt}} =="
L_MASC == "sustantivo masculino"
L_FEM == "sustantivo femenino"
L_IPA == "{{IPA|/p/}}"
DocLines == {H_ES, H_PT, L_MASC, L_FEM, L_IPA}

\* index of the first line of txt after position `from` that is in `what`
\* (Len(txt) + 1 when there is none)
FirstLine(txt, from, what) ==
    LET hits == {k \in (from + 1)..Len(txt) : txt[k] \in what}
    IN IF hits = {} THEN Len(txt) + 1 ELSE CHOOSE k \in hits : \A j \in hits : k <= j

\* enrich_pos_gender.extract_language_section(text, 'es')
extract_language_section(txt) ==
    LET start == FirstLine(txt, 0, {H_ES})
        end == FirstLine(txt, start, {H_ES, H_PT})
    IN IF start > Len(txt) THEN << >> ELSE SubSeq(txt, start + 1, end - 1)

\* enrich_pos_gender.parse_spanish_section, the gender of the first bold line
parse_spanish_section(section) ==
    LET k == FirstLine(section, 0, {L_MASC, L_FEM})
    IN IF k > Len(section) THEN E ELSE IF section[k] = L_MASC THEN S_m ELSE S_f

\* enrich_pos_gender.wiki_pos_gender on one document
wiki_pos_gender(txt) == parse_spanish_section(extract_language_section(txt))

\* build_cards.ipa_from_wiktionary on one document: the first IPA template of
\* the text
ipa_from_wiktionary(txt) ==
    IF FirstLine(txt, 0, {L_IPA}) > Len(txt) THEN E ELSE IPA_PHON

\* translate_pick.wiktionary_gender on one document: substring tests on the
\* whole lower-cased text, masculine first
wiktionary_gender(txt) ==
    IF \E k \in 1..Len(txt) : txt[k] = L_MASC THEN S_m
    ELSE IF \E k \in 1..Len(txt) : txt[k] = L_FEM THEN S_f
    ELSE E

\* --- the pure functions, applied to inputs drawn from bounded sets ---
FN == prog = "functions"

FnAlphabet == {"a", "d", "e", "i", "o", "r"}

\* every word of up to MaxWordLen letters, and words that carry the listed
\* suffixes, a table entry, upper case or a second token
FnWords ==
    UNION {[1..n -> FnAlphabet] : n \in 1..MaxWordLen}
    \cup GENDER_EX_KEYS
    \cup {<<"M","a","n","o">>, W_mano \o <<" ">> \o W_oso, W_agua, W_sol,
          <<"c","a","n","c","i","ó","n">>, <<"c","i","u","d","a","d">>,
          <<"s","e","r","i","e">>, <<"v","i","a","j","e">>, <<"c","a","p","i","t","á","n">>,
          <<"h","a","m","b","r","e">>, <<"c","o","s","t","u","m","b","r","e">>,
          <<"c","o","l","o","r">>, <<"v","i","r","t","u","d">>}

\* punctuation and white space, and every text of them up to MaxWordLen
FnPunct == {"!", "?", "-", " "}
FnBlanks == {E} \cup UNION {[1..n -> FnPunct] : n \in 1..MaxWordLen}

\* the image files a directory may hold for the key oso, and one of another key
FnImageFiles ==
    {W_oso \o <<".jpg">>, W_oso \o <<"-1", ".jpg">>, W_oso \o <<"-2", ".jpg">>,
     W_oso \o <<"_collage", ".jpg">>, W_sol \o <<".jpg">>}

\* the values of --voice, and the voices installed on the machine
FnVoiceArgs == {<<"Paulina">>, <<"Jorge">>, <<"Zed">>, E}
FnInstalled == SUBSET {<<"Paulina">>, <<"Luciana">>, <<"Jorge">>, <<"Zed">>}

\* every document of up to MaxDocLen lines
FnDocs == UNION {[1..n -> DocLines] : n \in 1..MaxDocLen}
DocFns == {"ipa_from_wiktionary", "wiktionary_gender", "wiki_pos_gender"}

FnCur(word, pos, gender) ==
    [word |-> word, pos |-> pos, gender |-> gender, fn |-> "", result |-> E,
     installed |-> {}, picked |-> NoneVoice]

Fn_Init ==
    /\ prog = "functions" /\ runs = 1 /\ csvPresent = TRUE /\ csv = << >>
    /\ notes = {} /\ modelFields = EXPECTED_FIELDS /\ flags = NoFlags
    /\ audio = {} /\ dirs = {}
    /\ \/ /\ images = {} /\ pillow = FALSE
          /\ \/ \E w \in FnWords, p \in {E, S_noun, S_verb} : cur = FnCur(w, p, E)
             \/ \E w \in FnBlanks : cur = FnCur(w, E, E)
       \/ /\ images \in SUBSET FnImageFiles /\ pillow \in BOOLEAN
          /\ \E w \in {W_oso, <<"O", "s", "o", " ">>} : cur = FnCur(w, E, E)
       \/ /\ images = {} /\ pillow = FALSE
          /\ \E d \in FnDocs : cur = FnCur(d, E, E)
       \/ /\ images = {} /\ pillow = FALSE
          /\ \E v \in FnVoiceArgs, inst \in FnInstalled :
               cur = [FnCur(v, E, E) EXCEPT !.installed = inst]
    /\ run = 0 /\ pc = "idle" /\ rows = << >> /\ i = 1 /\ processed = 0
    /\ cnt = ZeroCnt /\ crash = ""
    /\ log = NoLog /\ outcome = NoOutcome /\ worked = {} /\ updLog = {}
    /\ pushed = NoPushed /\ prevOut = NoOutcome /\ prevPushed = NoPushed

\* one call of a function on the drawn input (the gender functions are
\* called with a key that has a first token)
Fn_Apply(fn) ==
    /\ FN /\ pc = "idle"
    /\ fn \in {"detect_gender", "heuristic_gender"} => Strip(cur.word) # E
    /\ fn = "pick_working_voice" => cur.word \in FnVoiceArgs
    /\ fn \in DocFns <=> cur.word \in FnDocs
    /\ pc' = "applied"
    /\ cur' = [cur EXCEPT
                 !.fn = fn,
                 !.result = CASE fn = "detect_gender" -> detect_gender(cur.word, cur.pos)
                              [] fn = "heuristic_gender" -> heuristic_gender(cur.word)
                              [] fn = "slugify" -> slugify(cur.word)
                              [] fn = "slugify_filename" -> slugify_filename(cur.word)
                              [] fn = "find_base_image" -> find_base_image(cur.word, images).img
                              [] fn = "ipa_from_wiktionary" -> ipa_from_wiktionary(cur.word)
                              [] fn = "wiktionary_gender" -> wiktionary_gender(cur.word)
                              [] fn = "wiki_pos_gender" -> wiki_pos_gender(cur.word)
                              [] fn = "pick_working_voice" ->
                                   pick_working_voice(cur.picked, cur.installed)]
    /\ images' = IF fn = "find_base_image" THEN find_base_image(cur.word, images).images
                 ELSE images
    /\ UNCHANGED <<envVars, csv, notes, audio, run, dirs, rows, i, processed, cnt,
                   crash, histVars>>

Fn_Next ==
    \E fn \in {"detect_gender", "heuristic_gender", "slugify", "slugify_filename",
                "find_base_image", "pick_working_voice"} \cup DocFns : Fn_Apply(fn)

SpecFn == Fn_Init /\ [][Fn_Next]_vars

Init == BC_Init \/ SB_Init \/ IE_Init \/ EPG_Init \/ TP_Init
Next == BC_Next \/ SB_Next \/ IE_Next \/ EPG_Next \/ TP_Next
Spec == Init /\ [][Next]_vars
SpecTwice == TwiceInit /\ [][TwiceNext]_vars

\* ------------------------------------------------------------------------
\* Properties
\* ------------------------------------------------------------------------
\* the rows the loop of the running program has left
Left == {k \in RowIdx : k < i /\ k <= Len(rows)}

\* the identifying field of the running pipeline's notes: Word for
\* build_cards, the cloze field pick_fields chooses for sentences_build
IdentityFields == IF BC THEN {"Word"} ELSE {pick_fields(modelFields).cloze_field}

\* C1: after any sequence of runs of build_cards main and sentences_build main
\* in which any remote call may fail, the store never holds two notes of the
\* same deck and model with the same value in an identifying field (Word for
\* build_cards; the cloze field or the Text field for sentences_build).
C1_OneNotePerIdentity ==
    \A n1, n2 \in notes :
      (n1.id # n2.id /\ n1.deck = n2.deck)
        => \A f \in IdentityFields \cap DOMAIN n1.fields :
             n1.fields[f] # n2.fields[f]

\* the notes that match row k exactly on the secondary field: the Text field,
\* else the model's first field
SecondaryMatches(k) ==
    IF BC THEN {n \in notes : Strip(n.fields["Word"]) = Strip(rows[k].spanish)}
    ELSE LET m == pick_fields(modelFields)
             text == Strip(rows[k].text)
             fields == SB_Fields(m, make_cloze(text, rows[k].clozes), text,
                                 Strip(rows[k].notes), slugify_filename(text) \o <<".mp3">>)
             byText == {n \in notes : m.text_field # "" /\ Strip(n.fields[m.text_field]) = text}
         IN IF byText # {} THEN byText
            ELSE {n \in notes : Strip(n.fields[m.first_field]) = fields[m.first_field]}

\* C3: in build_cards main and sentences_build main, when addNote reports a
\* duplicate for a record and an existing note matches it exactly on the
\* secondary field, the reconciler goes on to updateNoteFields on that note:
\* the record ends as Updated, and exactly one such note exists.
C3_DuplicateRescued ==
    \A k \in RowIdx :
      (k <= Len(rows) /\ "duplicate" \in log[k] /\ SecondaryMatches(k) # {})
        => \/ k = i /\ pc \notin Stopped
           \/ outcome[k] = "updated" /\ Cardinality(SecondaryMatches(k)) = 1

\* C4: updateNoteFields and addTags are only ever issued for a note whose
\* matched identifying field value, stripped, equals the record's identity
\* value exactly; a candidate of the fragment search that merely contains the
\* identity is never updated.
C4_UpdatesOnlyExactMatches ==
    \A e \in updLog :
      /\ Strip(e.before) = e.want
      /\ \E n \in notes : n.id = e.id

\* an update was issued while another note of the deck, returned by the same
\* fragment search, contains the identity without being equal to it
C4_Witness ==
    /\ BC
    /\ \E e \in updLog :
         /\ e.call = "addTags"
         /\ \E n \in notes :
              /\ n.deck = DECK /\ n.id # e.id
              /\ Contains(n.fields["Word"], e.want)
              /\ Strip(n.fields["Word"]) # e.want

\* no image file of the directory is a source for the row's word
NoImageFor(k) == collect_image_sources(slugify(rows[k].spanish), images) = << >>

\* C5: every non-empty-key record of a build_cards run that the loop has left
\* and for which no image exists has had no remote request sent for it
\* (storeMediaFile, findNotes, notesInfo, addNote, updateNoteFields, addTags),
\* left the loop as image_missing with the loop moved on to the next record,
\* and image_missing has been incremented exactly once per such record.
C5_NoImageNoRemoteCall ==
    BC =>
      /\ \A k \in Left :
           (Strip(rows[k].spanish) # E /\ NoImageFor(k))
             => (log[k] = {} /\ outcome[k] = "image_missing")
      /\ \A k \in RowIdx : outcome[k] = "image_missing" => (log[k] = {} /\ k \in Left)
      /\ cnt.image_missing = Cardinality({k \in RowIdx : outcome[k] = "image_missing"})

\* a run that finished with one record image_missing and another one added
C5_Witness ==
    /\ BC /\ pc = "done"
    /\ \E k \in RowIdx : outcome[k] = "image_missing" /\ NoImageFor(k)
    /\ \E k \in RowIdx : outcome[k] = "added"

\* C6: when a remote-store call made while reconciling a record fails,
\* build_cards main recovers locally: the step that meets the failure counts
\* it in a counter and goes on to the next record (so the following records
\* are processed and the record store is rewritten at the end of the run).
C6_RemoteFailureRecovered ==
    [][(BC /\ crash = "" /\ crash' = "remote")
         => /\ pc' = "loop" /\ i' = i + 1
            /\ \E c \in DOMAIN cnt : cnt'[c] = cnt[c] + 1]_vars

\* C7: when an interrupt arrives while build_cards main processes a record, the
\* record runs to completion: no state is reachable where the run has ended on
\* the interrupt with a note's fields replaced and its tags not merged.
C7_InterruptFinishesRecord ==
    ~(/\ BC /\ pc = "aborted" /\ crash = "interrupt"
      /\ i \in RowIdx
      /\ "updateNoteFields" \in log[i] /\ "addTags" \notin log[i])

\* C9: with --limit n (n > 0) at most n records of one build_cards run get
\* past the needs-anything filter and are worked on.
C9_LimitCapsWorked ==
    (BC /\ flags.LIMIT > 0) => Cardinality(worked) <= flags.LIMIT

\* the audio file name main derives for the row the loop is at
AudioNameOf(k) ==
    LET spanish == Strip(rows[k].spanish)
        article == compute_article(spanish, Lower(Strip(rows[k].gender)),
                                   Lower(Strip(rows[k].pos)))
    IN slugify(IF article # E THEN article \o <<" ">> \o spanish ELSE spanish) \o <<".mp3">>

\* the record has an image, its audio file, an IPA value and, if a noun, a gender
Complete(k) ==
    /\ ~NoImageFor(k)
    /\ AudioNameOf(k) \in audio
    /\ Strip(rows[k].ipa) # E
    /\ Lower(Strip(rows[k].pos)) = S_noun => Strip(rows[k].gender) # E

\* C10: with --only-missing and no recalc flag, the filter step of build_cards
\* main skips the (non-empty-key) record, with skipped incremented by one, no
\* image prompt, no synthesis and no remote call, exactly when the record has
\* an image, its audio file, an IPA value and, if its pos is noun, a gender;
\* otherwise the record is worked on.
C10_OnlyMissingFilter ==
    [][(/\ BC /\ pc = "filter" /\ pc' # "aborted"
        /\ flags.ONLY_MISSING /\ ~flags.RECALC_POS /\ ~flags.RECALC_IPA)
         => IF Complete(i)
            THEN /\ outcome'[i] = "skipped_filter" /\ cnt'.skipped = cnt.skipped + 1
                 /\ i' = i + 1 /\ pc' = "loop"
                 /\ log'[i] = {} /\ i \notin worked' /\ audio' = audio /\ notes' = notes
            ELSE /\ i \in worked' /\ outcome'[i] = "" /\ cnt'.skipped = cnt.skipped
                 /\ pc' \in {"ensure_image", "audio"}]_vars

\* a run under --only-missing that skipped a complete record and worked on an
\* incomplete one
C10_Witness ==
    /\ BC /\ pc = "done"
    /\ flags.ONLY_MISSING /\ ~flags.RECALC_POS /\ ~flags.RECALC_IPA
    /\ \E k \in RowIdx : outcome[k] = "skipped_filter" /\ Complete(k)
    /\ \E k \in RowIdx : k \in worked /\ outcome[k] \in {"added", "updated"}

\* C8 (as stated): without --recalc-ipa no run of build_cards, ipa_enricher,
\* enrich_pos_gender or translate_pick changes or clears a non-empty pos,
\* gender or ipa value of a record.
C8_NonEmptyNeverChanged ==
    [][(prog \in {"build_cards", "ipa_enricher", "enrich_pos_gender", "translate_pick"}
        /\ ~(BC /\ flags.RECALC_IPA))
         => \A k \in RowIdx : \A f \in {"pos", "gender", "ipa"} :
              csv[k][f] # E => csv'[k][f] = csv[k][f]]_vars

\* C8 (amended): without --recalc-ipa no run of build_cards, ipa_enricher or
\* enrich_pos_gender changes or clears a pos, gender or ipa value that is not
\* blank (not empty after stripping white space), neither in the record store
\* nor in the rows held in memory.  translate_pick is excepted: it replaces
\* pos and gender by the user's answers and clears the gender of a non-noun.
C8_EnrichedValuesKept ==
    [][(prog \in {"build_cards", "ipa_enricher", "enrich_pos_gender"}
        /\ ~(BC /\ flags.RECALC_IPA))
         => \A k \in RowIdx : \A f \in {"pos", "gender", "ipa"} :
              /\ Strip(csv[k][f]) # E => csv'[k][f] = csv[k][f]
              /\ (Len(rows) = NumRows /\ Len(rows') = NumRows /\ Strip(rows[k][f]) # E)
                   => rows'[k][f] = rows[k][f]]_vars

\* a finished build_cards run that guessed a gender for one record and wrote
\* the store back with the upper-case gender of another record untouched
C8_Witness ==
    /\ BC /\ ~flags.RECALC_IPA /\ pc = "done" /\ cnt.enriched_gender > 0
    /\ \E k \in RowIdx : csv[k].gender = <<"F">> /\ Lower(Strip(csv[k].pos)) = S_noun

C11_PreconditionAbortNoEffect ==
    [][((BC \/ SB) /\ run' = run + 1 /\ crash' \in {"nocsv", "schema"})
         => UNCHANGED <<dirs, images, audio, csv, notes>>]_vars

\* the records of a sentences_build run that reached the reconciler (the
\* upsert of main) and left it
SB_Reconciled ==
    {k \in RowIdx : outcome[k] \in {"added", "updated", "add_failed", "update_failed",
                                     "dup_unmatched"}}

\* C12: every record that entered the reconciler of sentences_build is counted
\* in the result of the run as Added, Updated or Failed; a duplicate that the
\* rescue lookups cannot match is recorded as Failed.  The result line of main
\* reports count_add and count_upd only, so the counted records are those two.
C12_ReconciledRecordsCounted ==
    (SB /\ pc = "done") => Cardinality(SB_Reconciled) = cnt.added + cnt.updated

\* C13: a build_cards run that started scanning records ends, on every exit
\* path, with the summary, and the five counters of the summary sum to the
\* number of records scanned.
C13_SummaryCountsEveryRecord ==
    (BC /\ run >= 1 /\ pc \in Stopped /\ crash \notin {"schema", "nocsv"})
      => /\ pc = "done"
         /\ cnt.added + cnt.updated + cnt.skipped + cnt.image_missing + cnt.audio_failed
              = i - 1

ChainRow == IF BC THEN i ELSE i - 1
ChainFlags == IF BC THEN flags ELSE NoDisable
SourceRank(src) == CASE src = "wikt" -> 1 [] src = "phon" -> 2 [] src = "epit" -> 3
SourceValue(src) == CASE src = "wikt" -> IPA_WIKT [] src = "phon" -> IPA_PHON
                      [] src = "epit" -> IPA_EPIT
SourceEnabled(src) ==
    CASE src = "wikt" -> ~ChainFlags.DISABLE_WIKT
      [] src = "phon" -> ~ChainFlags.DISABLE_PHON
      [] src = "epit" -> ~ChainFlags.DISABLE_EPIT
ChainRan == ((BC /\ pc = "filter") \/ (IE /\ pc = "ie_loop")) /\ cur.calls # << >>

\* C15: the transcription chain of build_cards and ipa_enricher invokes its
\* sources in the order Wiktionary, phonemizer, epitran; a source is invoked
\* only if it is enabled and every source invoked before it gave no answer;
\* the value stored in the record is that of the first source that answered.
C15_ChainShortCircuit ==
    ChainRan
      => LET calls == cur.calls
         IN /\ \A a, b \in 1..Len(calls) :
                 a < b => SourceRank(calls[a]) < SourceRank(calls[b])
            /\ \A a \in 1..Len(calls) :
                 /\ SourceEnabled(calls[a])
                 /\ \A b \in 1..(a - 1) : calls[b] \notin cur.answering
            /\ \A a \in 1..Len(calls) :
                 calls[a] \in cur.answering
                   => /\ a = Len(calls)
                      /\ rows[ChainRow].ipa = SourceValue(calls[a])

\* the chain asked Wiktionary, got nothing, asked phonemizer, got its answer,
\* stored it and did not ask epitran
C15_Witness ==
    /\ ChainRan /\ cur.calls = <<"wikt", "phon">> /\ "epit" \in cur.answering
    /\ rows[ChainRow].ipa = IPA_PHON

\* the precedence of the gender rules, for a lower-case head word
RuleGender(head) ==
    IF head \in GENDER_EX_KEYS THEN (IF head = W_mano THEN S_f ELSE S_m)
    ELSE IF \E s \in FEM_SUFFIXES : EndsWith(head, s) THEN S_f
    ELSE IF \E s \in MASC_SUFFIXES : EndsWith(head, s) THEN S_m
    ELSE IF head[Len(head)] = "a" THEN S_f
    ELSE IF head[Len(head)] = "o" THEN S_m
    ELSE E

\* C16: for every head word detect_gender (build_cards) and heuristic_gender
\* (translate_pick) answer by this precedence: exception table, feminine
\* suffix, masculine suffix, final a, final o, else nothing; mano is f and
\* día is m.
C16_GenderRulePrecedence ==
    (FN /\ pc = "applied" /\ cur.fn \in {"detect_gender", "heuristic_gender"})
      => /\ cur.fn = "detect_gender"
              => cur.result = RuleGender(Lower(Split(Strip(cur.word))[1]))
         /\ cur.fn = "heuristic_gender" => cur.result = RuleGender(Lower(cur.word))
         /\ cur.word = W_mano => cur.result = S_f
         /\ cur.word = W_dia => cur.result = S_m

\* detect_gender answered f for mano, whose final o alone would give m
C16_Witness ==
    /\ FN /\ pc = "applied" /\ cur.fn = "detect_gender" /\ cur.word = W_mano
    /\ cur.result = S_f

\* the head word of a record's key ends in ar, er or ir
InfHead(spanish) ==
    LET toks == Split(Strip(spanish))
    IN toks # << >> /\ \E suf \in INF_SUFFIXES : EndsWith(Lower(toks[1]), suf)

\* C17 (as stated): no step of build_cards, enrich_pos_gender or
\* translate_pick gives a gender to a record whose head word ends in ar, er
\* or ir.
C17_NoGenderForInfinitives ==
    [][(prog \in {"build_cards", "enrich_pos_gender", "translate_pick"})
         => \A k \in 1..Len(csv) :
              (Len(csv') = Len(csv) /\ InfHead(csv'[k].spanish)
               /\ csv'[k].gender # csv[k].gender)
                => csv'[k].gender = E]_vars

\* What the code does keep: the gender heuristic never answers for such a
\* record. build_cards never changes its gender, in memory or in the record
\* store, and the guess translate_pick offers at its gender prompt is empty.
HeuristicSkipsInfinitives ==
    [][/\ BC => \A k \in 1..Len(csv) :
                  /\ (Len(rows) = Len(csv) /\ Len(rows') = Len(csv)
                      /\ InfHead(rows[k].spanish))
                       => rows'[k].gender = rows[k].gender
                  /\ InfHead(csv[k].spanish) => csv'[k].gender = csv[k].gender
       /\ (TP /\ pc' = "tp_gender" /\ InfHead(rows'[i'].spanish))
            => detect_gender_if_noun(rows'[i'].spanish, S_noun,
                                     TP_WiktGender(Split(Strip(rows'[i'].spanish))[1])) = E
      ]_vars

\* C18: every Article value pushed to a note is compute_article of the
\* record's word, pos and gender: the field set build_cards sends for a
\* record, and the Article enrich_pos_gender writes into a note from the
\* record of the same word.
C18_ArticleIsFunctionOfRecord ==
    [][/\ BC => \A k \in RowIdx :
                  (pushed'[k] # NoFields /\ k <= Len(rows'))
                    => pushed'[k]["Article"] =
                         compute_article(Strip(rows'[k].spanish),
                                         Lower(Strip(rows'[k].gender)),
                                         Lower(Strip(rows'[k].pos)))
       /\ EPG => \A n \in notes : \A m \in notes' :
                   (m.id = n.id /\ m.fields["Article"] # n.fields["Article"])
                     => LET word == Lower(Strip(n.fields["Word"]))
                            pg == EPG_PosMap(word)
                        IN m.fields["Article"] = compute_article(word, pg[2], pg[1])
      ]_vars

\* C19: slugify gives the empty string for every input that is empty or made
\* of punctuation and white space only (the key build_cards then has to
\* treat as no valid key).
C19_BlankKeyGivesEmptySlug ==
    (FN /\ pc = "applied" /\ cur.fn = "slugify"
        /\ \A k \in 1..Len(cur.word) : cur.word[k] \in FnPunct)
      => cur.result = E

\* C20: find_base_image resolves a key to nothing without a source image, to
\* the source when there is exactly one, and with two or more to the cached
\* collage file when it exists (composing nothing), else to a newly composed
\* collage, else (Pillow unavailable) to the first source in discovery order.
C20_BaseImageResolution ==
    [][(FN /\ cur'.fn = "find_base_image")
         => LET slug == slugify(cur.word)
                names == <<slug \o <<".jpg">>, slug \o <<"-1", ".jpg">>, slug \o <<"-2", ".jpg">>>>
                found == {k \in 1..Len(names) : names[k] \in images}
                first == names[CHOOSE k \in found : \A j \in found : k <= j]
                collage == slug \o <<"_collage", ".jpg">>
            IN CASE Cardinality(found) = 0 -> cur'.result = E /\ images' = images
                 [] Cardinality(found) = 1 -> cur'.result = first /\ images' = images
                 [] Cardinality(found) > 1 /\ collage \in images ->
                      cur'.result = collage /\ images' = images
                 [] Cardinality(found) > 1 /\ collage \notin images /\ pillow ->
                      cur'.result = collage /\ images' = images \cup {collage}
                 [] OTHER -> cur'.result = first /\ images' = images]_vars

\* two sources and no Pillow: the collage of an earlier run was reused
C20_Witness ==
    /\ FN /\ pc = "applied" /\ cur.fn = "find_base_image" /\ ~pillow
    /\ cur.result = W_oso \o <<"_collage", ".jpg">>
    /\ {W_oso \o <<".jpg">>, W_oso \o <<"-2", ".jpg">>} \subseteq images

\* C21: with --regen-audio, every record with a non-empty key and a resolved
\* image that build_cards leaves has passed the audio step (its file deleted
\* and synthesis run again), whatever the other flags.
C21_RegenAudioEveryRecord ==
    [][(BC /\ flags.FORCE_REGENERATE_AUDIO /\ i' = i + 1 /\ cur.spanish # E
           /\ ImageResolved(find_base_image(cur.spanish, images').img))
         => outcome'[i] \in {"added", "updated", "audio_failed"}]_vars

\* C22: a failed synthesis never ends a run of build_cards or
\* sentences_build: the record is counted as failed, no request was sent for
\* it, and the loop goes on.
C22_SynthesisFailureNotFatal ==
    (BC \/ SB)
      => /\ crash # "tts"
         /\ \A k \in RowIdx : outcome[k] = "audio_failed" => log[k] = {}
         /\ BC => cnt.audio_failed
                    = Cardinality({k \in RowIdx : outcome[k] = "audio_failed"})

\* C23: whenever translate_pick waits for input (main prompt, pos prompt,
\* gender prompt) the file holds exactly the in-memory records.
C23_FileEqualsMemoryAtPrompts ==
    (TP /\ pc \in {"tp_main", "tp_pos", "tp_gender"}) => csv = TP_File(rows)

\* C24: without --update-existing sentences_build never changes a note that
\* exists: every note of the store is still there, fields and tags as before,
\* after every step.
C24_ExistingNotesUntouched ==
    [][(SB /\ ~flags.update_existing) => \A n \in notes : n \in notes']_vars

\* C25: the voice build_cards synthesizes with is the first voice, in the
\* order --voice then the fallback list, whose test synthesis succeeds.
C25_VoiceIsFirstWorking ==
    (FN /\ pc = "applied" /\ cur.fn = "pick_working_voice")
      => cur.result = FirstWorking(<<cur.word>> \o FALLBACK_VOICES, cur.installed)

\* C26: whatever a lookup extracts from a fetched document (IPA, gender) is
\* what the Spanish section of the document alone yields; markup in another
\* language's section gives no answer.
C26_OnlySpanishSectionRead ==
    (FN /\ pc = "applied" /\ cur.fn \in DocFns)
      => LET section == extract_language_section(cur.word)
         IN /\ cur.fn = "ipa_from_wiktionary" => cur.result = ipa_from_wiktionary(section)
            /\ cur.fn = "wiktionary_gender" => cur.result = wiktionary_gender(section)
            /\ cur.fn = "wiki_pos_gender" => cur.result = parse_spanish_section(section)

\* C27: a --dry-run of build_cards never raises and never sends a request
\* to the store.
C27_DryRunCompletes ==
    (BC /\ flags.DRY_RUN /\ run >= 1)
      => /\ pc # "crashed"
         /\ \A k \in RowIdx : log[k] = {}

\* C28: a record whose gender or IPA build_cards filled in this run, and
\* which has an image and its audio file, leaves the loop only after its
\* field set was sent to the store (added or updated), whatever the flags.
C28_EnrichedValueSentSameRun ==
    [][(BC /\ i' = i + 1 /\ i <= Len(rows)
           /\ (rows[i].ipa # csv[i].ipa \/ rows[i].gender # csv[i].gender)
           /\ ~NoImageFor(i) /\ AudioNameOf(i) \in audio')
         => outcome'[i] \in {"added", "updated"}]_vars

\* C29: with lookups that answer the same way in both runs (no fetch failed),
\* a second run of enrich_pos_gender --pos-only --gender-nouns updates no
\* row and leaves the record store as the first run wrote it.
C29_SecondRunChangesNothing ==
    [][(EPG /\ run' = 2 /\ flags.pos_only /\ flags.gender_nouns
           /\ \A k \in RowIdx : log'[k] = {})
         => /\ processed' = 0
            /\ csv' = csv]_vars

\* C30: two different texts to be spoken never get the same audio file name:
\* the name derived for a text (slugify in build_cards, slugify_filename in
\* sentences_build) is the name of no other text.
C30_DistinctTextsDistinctNames ==
    (FN /\ pc = "applied" /\ cur.fn \in {"slugify", "slugify_filename"}
        /\ cur.word \in FnWords)
      => \A w \in FnWords :
           Strip(w) # Strip(cur.word)
             => cur.result # (IF cur.fn = "slugify" THEN slugify(w) ELSE slugify_filename(w))

====
